---- MODULE Spec2Model ----
(***************************************************************************)
(* PocketChat: the relation / conversation / message services of the       *)
(* Angular client (RelationService, ConversationService, ChatService) and  *)
(* the PocketBase backend they talk to, as one state machine.              *)
(*                                                                         *)
(* One browser session per user.  Every `await` of the source is a yield   *)
(* point: the backend applies a call when it is issued, the code after the *)
(* await runs in a later step, and realtime events are queued per session  *)
(* and handled asynchronously in between.                                  *)
(***************************************************************************)
EXTENDS Integers, Sequences, FiniteSets, TLC

\* ------------------------------------------------------------------ bounds
Users == {"A", "B"}
MaxRelOps == 2      \* RelationService calls started in a behaviour of RelSpec
MaxChatOps == 1     \* Conversation/ChatService calls started in a behaviour of Spec
MaxChatRelOps == 1  \* RelationService calls started in a behaviour of Spec
MaxFaults == 1      \* backend calls that fail in transport
MaxConvOps == 2     \* getOrCreateConversation calls started in a behaviour of ConvSpec
MaxEventOps == 1    \* Conversation/ChatService calls started in a behaviour of EventSpec
MaxLoads == 1       \* conversations loaded by the chat page in a behaviour of EventSpec
MaxStore == 2       \* records of an in-memory collection drawn for StatusSpec
MaxMsgLoads == 3     \* switches of the chat page in a behaviour of MsgSpec
MaxOrderOps == 2     \* Conversation/ChatService calls started in a behaviour of OrderSpec
MaxStreamOps == 2    \* ChatService calls started in a behaviour of StreamSpec
MaxStreamLoads == 1  \* switches of the chat page in a behaviour of StreamSpec
MaxMsgOps == 1       \* ChatService calls started in a behaviour of MsgSpec
MaxDupOps == 2       \* RelationService calls started in a behaviour of DupSpec
MaxFetchOps == 2    \* RelationService calls started in a behaviour of FetchSpec
MaxSendOps == 2     \* sendMessage / sendFileMessage calls in a behaviour of SendSpec
MaxText == 2        \* characters of a message text
MaxLifeOps == 2     \* RelationService calls started in a behaviour of LifeSpec

VARIABLES
  dbRel,          \* backend collection 'relations'
  dbConv,         \* backend collection 'conversations'
  dbMsg,          \* backend collection 'messages'
  msgs,           \* ChatService.messagesSignal, per session
  msgQ,           \* realtime 'messages' events not yet delivered, per session
  msgH,           \* message create handlers suspended on getOne, per session
  active,         \* the chat page's currentConversation, by id (0 for null)
  listeners,      \* listeners registered by subscribeToMessages, per session
  unsubscribe,    \* ChatService.unsubscribe: the listener it removes (0: unset)
  loads,          \* loadConversation calls suspended on fetchMessages
  nextId,         \* next record identifier of the backend
  clock,          \* backend time, stamps conversations.updated
  rels,           \* RelationService.relationsSignal, per session
  processingIds,  \* RelationService.processingIds, per session
  relQ,           \* realtime 'relations' events not yet delivered, per session
  relH,           \* relation event handlers suspended on getOne, per session
  errorSignal,    \* RelationService.errorSignal, per session ("" for null)
  currentUser,    \* authService.user() of each session (NoUser for null)
  relUnsubscribe, \* RelationService.unsubscribe is set: the subscription is live
  convs,          \* ConversationService.conversationsSignal, per session
  convQ,          \* realtime 'conversations' events not yet delivered
  convH,          \* conversation event handlers suspended on an await
  op,             \* the service call each session is running (or ran last)
  relLeft,        \* RelationService calls that may still be started
  chatLeft,       \* Conversation/ChatService calls that may still be started
  loadLeft,       \* conversations the chat page may still load
  faults          \* transport failures so far

relVars == <<dbRel, rels, processingIds, relQ, relH>>
convVars == <<dbConv, convs, convQ, convH, clock>>
msgStore == <<msgs, msgQ, msgH, active, listeners, unsubscribe, loads>>
vars == <<dbRel, dbConv, dbMsg, nextId, clock, rels, processingIds, relQ, relH,
          convs, convQ, convH, msgs, msgQ, msgH, active, listeners, unsubscribe,
          loads, op, relLeft, chatLeft, loadLeft, faults, errorSignal, currentUser,
                  relUnsubscribe>>

\* ------------------------------------------------------------- records
NoUser == "-"
IRelation(id, f, t, ty) == [id |-> id, from_user |-> f, to_user |-> t, type |-> ty]
NoRelation == IRelation(0, NoUser, NoUser, "no_relation")
IConversation(id, ps, upd) == [id |-> id, participants |-> ps, updated |-> upd]
NoConversation == IConversation(0, {}, 0)
IMessage(id, c, u, k) == [id |-> id, conversation |-> c, user |-> u, kind |-> k]
Event(a, r) == [action |-> a, record |-> r]
\* a callback registered for the messages of one conversation; it is live once
\* the subscribe call has resolved
Listener(id, conversationId, live) ==
  [id |-> id, conversationId |-> conversationId, live |-> live]

Other(u) == CHOOSE v \in Users : v # u

\* ------------------------------------------------------- sequence helpers
SeqToSet(s) == {s[i] : i \in 1..Len(s)}
\* prev.some((x) => x.id === id)
HasId(s, id) == \E i \in 1..Len(s) : s[i].id = id
\* prev.map((r) => (r.id === id ? n : r))
ReplaceById(s, id, n) == [i \in 1..Len(s) |-> IF s[i].id = id THEN n ELSE s[i]]
\* prev.map((r) => (r.id === id ? { ...r, type } : r))
RetypeById(s, id, type) ==
  [i \in 1..Len(s) |-> IF s[i].id = id THEN [s[i] EXCEPT !.type = type] ELSE s[i]]
\* variant: the filter drops nothing
RemoveByIdNever(s, id) == s
\* prev.filter((r) => r.id !== id)
RemoveById(s, id) == SelectSeq(s, LAMBDA r : r.id # id)

\* variant: the record is appended whether or not its identifier is present
AppendAlways(s, r) == Append(s, r)
\* const exists = prev.some((x) => x.id === r.id); if (!exists) [...prev, r]
AppendIfAbsent(s, r) == IF HasId(s, r.id) THEN s ELSE Append(s, r)

RECURSIVE SortById(_)
\* records of a set, highest identifier first (sort: '-created')
SortById(S) ==
  IF S = {} THEN <<>>
  ELSE LET m == CHOOSE r \in S : \A q \in S : q.id <= r.id
       IN <<m>> \o SortById(S \ {m})

\* ------------------------------------------------- RelationService: reads
RelationTypes == {"friend", "blocked", "pending_sent", "pending_received"}

\* relations.find: the first record from f to t whose type is one of `types`
FindRelation(rs, f, t, types) ==
  LET hit(i) == rs[i].from_user = f /\ rs[i].to_user = t /\ rs[i].type \in types
  IN IF \E i \in 1..Len(rs) : hit(i)
       THEN rs[CHOOSE i \in 1..Len(rs) : hit(i) /\ \A j \in 1..(i-1) : ~hit(j)]
       ELSE NoRelation

\* variant: the incoming record's kind is reported as stored
RelationStatusUnconverted(rs, me, userId) ==
  LET outgoing == FindRelation(rs, me, userId, RelationTypes)
      incoming == FindRelation(rs, userId, me, RelationTypes)
  IN IF outgoing # NoRelation
       THEN [type |-> outgoing.type, isInitiatedByMe |-> TRUE, relation |-> outgoing]
     ELSE IF incoming # NoRelation
       THEN [type |-> incoming.type, isInitiatedByMe |-> FALSE, relation |-> incoming]
     ELSE [type |-> "no_relation", isInitiatedByMe |-> FALSE, relation |-> NoRelation]

\* getRelationStatus over an in-memory collection rs, as seen by user me
RelationStatus(rs, me, userId) ==
  LET outgoing == FindRelation(rs, me, userId, RelationTypes)
      incoming == FindRelation(rs, userId, me, RelationTypes)
  IN IF outgoing # NoRelation
       THEN [type |-> outgoing.type, isInitiatedByMe |-> TRUE, relation |-> outgoing]
     ELSE IF incoming # NoRelation
       THEN [type |-> IF incoming.type = "pending_sent" THEN "pending_received"
                      ELSE incoming.type,
             isInitiatedByMe |-> FALSE, relation |-> incoming]
     ELSE [type |-> "no_relation", isInitiatedByMe |-> FALSE, relation |-> NoRelation]

getRelationStatus(u, userId) == RelationStatus(rels[u], u, userId)

isBlockedByMe(u, userId) ==
  LET status == getRelationStatus(u, userId)
  IN status.type = "blocked" /\ status.isInitiatedByMe

\* variant: the store never reports a block by the other user
isBlockedByNever(u, userId) == FALSE

isBlockedBy(u, userId) ==
  LET status == getRelationStatus(u, userId)
  IN status.type = "blocked" /\ ~status.isInitiatedByMe

\* variant: the store never reports a friendship
areFriendsNever(u, userId) == FALSE

areFriends(u, userId) == getRelationStatus(u, userId).type = "friend"

\* the backend's relation records that touch user u (the fetchRelations filter)
Touching(u) == {r \in dbRel : r.from_user = u \/ r.to_user = u}

\* ------------------------------------------------------ service-call frames
\* A frame is the call a session is running: its name and argument, the await
\* it is suspended on (pc), the outcome of the backend call it awaits (ok,
\* resp) and its locals.  The fields from `step` on are history: they record
\* the circumstances of the call and are read by properties only.
NoPrev == [name |-> "none", target |-> NoUser, ok |-> TRUE, step |-> 0]
NoAfter == [name |-> "none", status |-> "no_relation", sync |-> FALSE]
NoPrior == [name |-> "none", target |-> NoUser, ok |-> FALSE, alone |-> FALSE,
            conv |-> 0, had |-> 0]

NoOp ==
  [name |-> "none", target |-> NoUser, pc |-> "done", ok |-> TRUE,
   resp |-> NoRelation,        \* record returned by the awaited backend call
   relation |-> NoRelation,    \* status.relation captured by the call
   reciprocal |-> NoRelation,  \* removeFriend's reciprocal
   items |-> <<>>,             \* resultList.items still to be looked at
   kept |-> <<>>,              \* filteredConversations
   conv |-> NoConversation,    \* conversation the call is about
   msg |-> 0,                  \* identifier of the message the call created
   text |-> <<>>,              \* data.text of sendMessage
   blank |-> TRUE,             \* the text passed had no character but blanks
   step |-> 0,                 \* backend writes of this call that succeeded
   fault |-> FALSE,            \* a backend call of this call failed in transport
   alone |-> FALSE,            \* no other call overlapped, none started since
   quiet |-> FALSE,            \* no event was in flight at the call
   sync |-> FALSE,             \* every store mirrored the backend at the call
   pre |-> {},                 \* the backend's relations at the call
   status |-> "no_relation",   \* computed status with target at the call
   mine |-> FALSE,             \* its isInitiatedByMe
   prev |-> NoPrev,            \* the call this session made before this one
   after |-> NoAfter,          \* the other session's call this one came after
   held |-> <<>>,              \* the caller's relation collection at the call
   had |-> 0,                  \* conversations of the pair stored at the call
   prior |-> [v \in Users |-> NoPrior]]  \* each session's completed
                               \* getOrCreateConversation at the call

Idle(u) == op[u].pc = "done"
QuietRel == \A u \in Users : relQ[u] = <<>> /\ relH[u] = {}
QuietConv == \A u \in Users : convQ[u] = <<>> /\ convH[u] = {}
Quiet == QuietRel /\ QuietConv
InSync(u) == SeqToSet(rels[u]) = Touching(u)

budget == <<relLeft, chatLeft, loadLeft>>
CanStartRel(u) == Idle(u) /\ relLeft > 0
CanStartChat(u) == Idle(u) /\ chatLeft > 0
StartRel == relLeft' = relLeft - 1 /\ UNCHANGED <<chatLeft, loadLeft>>
StartChat == chatLeft' = chatLeft - 1 /\ UNCHANGED <<relLeft, loadLeft>>
StartLoad == loadLeft' = loadLeft - 1 /\ UNCHANGED <<relLeft, chatLeft>>

\* the call ran by itself from a quiet system
Solo(o) == o.alone /\ o.quiet
\* v's last call succeeded by itself, and every event it caused is processed
Settled(v) == op[v].pc = "done" /\ op[v].ok /\ Solo(op[v]) /\ Quiet

Call(u, name, target) ==
  LET status == getRelationStatus(u, target)
      v == Other(u)
  IN [NoOp EXCEPT !.name = name, !.target = target,
        !.alone = \A w \in Users : Idle(w),
        !.quiet = Quiet,
        !.sync = \A w \in Users : InSync(w),
        !.pre = dbRel,
        !.held = rels[u],
        !.status = status.type, !.mine = status.isInitiatedByMe,
        !.prev = [name |-> op[u].name, target |-> op[u].target,
                  ok |-> op[u].ok, step |-> op[u].step],
        !.after = IF Settled(v) /\ op[v].name # "none"
                    THEN [name |-> op[v].name, status |-> op[v].status,
                          sync |-> op[v].sync]
                    ELSE NoAfter]

\* op' when u starts frame o: any call that ran before is no longer the last
Begin(u, o) == [v \in Users |-> IF v = u THEN o ELSE [op[v] EXCEPT !.alone = FALSE]]
Cont(u, o) == [op EXCEPT ![u] = o]
Return(o) == [o EXCEPT !.pc = "done", !.ok = TRUE]
Throw(o) == [o EXCEPT !.pc = "done", !.ok = FALSE]

\* ------------------------------------------------- backend: 'relations'
Broadcast(q, ev) == [v \in Users |-> Append(q[v], ev)]
\* a relation event goes to the sessions whose relation subscription is live
RelBroadcast(ev) ==
  [v \in Users |-> IF relUnsubscribe[v] THEN Append(relQ[v], ev) ELSE relQ[v]]

NoRelWrite == UNCHANGED <<dbRel, nextId, relQ>>

\* the call fails in transport: nothing is written
TransportFailure(u, ops) ==
  /\ faults < MaxFaults
  /\ faults' = faults + 1
  /\ op' = [ops EXCEPT ![u].ok = FALSE, ![u].fault = TRUE]
  /\ NoRelWrite

\* the call is not made (a throw before it, or a return)
NoCall(ops) == op' = ops /\ NoRelWrite /\ UNCHANGED faults

relCreate(u, data, ops) ==
  \/ /\ LET r == IRelation(nextId, data.from_user, data.to_user, data.type)
        IN /\ dbRel' = dbRel \cup {r}
           /\ relQ' = RelBroadcast(Event("create", r))
           /\ op' = [ops EXCEPT ![u].ok = TRUE, ![u].resp = r, ![u].step = @ + 1]
     /\ nextId' = nextId + 1
     /\ UNCHANGED faults
  \/ TransportFailure(u, ops)

relUpdate(u, id, type, ops) ==
  \/ \E r \in dbRel :
       /\ r.id = id
       /\ LET n == [r EXCEPT !.type = type]
          IN /\ dbRel' = (dbRel \ {r}) \cup {n}
             /\ relQ' = RelBroadcast(Event("update", n))
             /\ op' = [ops EXCEPT ![u].ok = TRUE, ![u].resp = n, ![u].step = @ + 1]
       /\ UNCHANGED <<nextId, faults>>
  \/ /\ \A r \in dbRel : r.id # id          \* 404
     /\ op' = [ops EXCEPT ![u].ok = FALSE]
     /\ NoRelWrite /\ UNCHANGED faults
  \/ /\ \E r \in dbRel : r.id = id
     /\ TransportFailure(u, ops)

relDelete(u, id, ops) ==
  \/ \E r \in dbRel :
       /\ r.id = id
       /\ dbRel' = dbRel \ {r}
       /\ relQ' = RelBroadcast(Event("delete", r))
       /\ op' = [ops EXCEPT ![u].ok = TRUE, ![u].step = @ + 1]
       /\ UNCHANGED <<nextId, faults>>
  \/ /\ \A r \in dbRel : r.id # id          \* 404
     /\ op' = [ops EXCEPT ![u].ok = FALSE]
     /\ NoRelWrite /\ UNCHANGED faults
  \/ /\ \E r \in dbRel : r.id = id
     /\ TransportFailure(u, ops)

\* ------------------------------------------- RelationService: operations
\* handleError: the message of the error caught, which is the backend's
ErrorMessage(o) == IF o.fault THEN "transport" ELSE "not_found"
\* errorSignal.set(errorMessage)
SetError(u, errorMessage) == errorSignal' = [errorSignal EXCEPT ![u] = errorMessage]

\* the bodies of the three creates
\* variant: the request written from the target to the caller
friendRequestDataReversed(u, targetUserId) ==
  [from_user |-> targetUserId, to_user |-> u, type |-> "pending_sent"]
\* variant: the request written under the kind its receiver computes
friendRequestDataAsReceived(u, targetUserId) ==
  [from_user |-> u, to_user |-> targetUserId, type |-> "pending_received"]
friendRequestData(u, targetUserId) ==
  [from_user |-> u, to_user |-> targetUserId, type |-> "pending_sent"]
\* variant: the reciprocal written in the direction of the request
reciprocalDataSwapped(u, targetUserId) ==
  [from_user |-> targetUserId, to_user |-> u, type |-> "friend"]
reciprocalData(u, targetUserId) ==
  [from_user |-> u, to_user |-> targetUserId, type |-> "friend"]
blockedData(u, targetUserId) ==
  [from_user |-> u, to_user |-> targetUserId, type |-> "blocked"]

restOfRel == <<dbConv, dbMsg, msgStore, clock, convs, convQ, convH, processingIds, relH,
              currentUser, relUnsubscribe>>

\* variant: the request is created whatever the target and the status
sendFriendRequestUnguarded(u, targetUserId) ==
  /\ CanStartRel(u)
  /\ StartRel
  /\ relCreate(u, friendRequestData(u, targetUserId),
               Begin(u, [Call(u, "sendFriendRequest", targetUserId) EXCEPT !.pc = "create"]))
  /\ UNCHANGED <<rels, errorSignal, restOfRel>>

sendFriendRequest(u, targetUserId) ==
  /\ CanStartRel(u)
  /\ StartRel
  /\ LET o == Call(u, "sendFriendRequest", targetUserId)
     IN IF u = targetUserId \/ o.status # "no_relation"
          THEN NoCall(Begin(u, Throw(o)))
          ELSE relCreate(u, friendRequestData(u, targetUserId),
                         Begin(u, [o EXCEPT !.pc = "create"]))
  /\ UNCHANGED <<rels, errorSignal, restOfRel>>

sendFriendRequestResume(u) ==
  /\ op[u].name = "sendFriendRequest" /\ op[u].pc = "create"
  /\ IF op[u].ok
       THEN /\ rels' = [rels EXCEPT ![u] = Append(@, op[u].resp)]
            /\ op' = Cont(u, Return(op[u]))
            /\ UNCHANGED errorSignal
       ELSE /\ UNCHANGED rels
            /\ op' = Cont(u, Throw(op[u]))
            /\ SetError(u, ErrorMessage(op[u]))
  /\ UNCHANGED <<dbRel, nextId, relQ, faults, budget, restOfRel>>

\* fetchRelations' getList: the records touching u, newest first
fetchRelationsList(u) == SortById(Touching(u))

acceptFriendRequest(u, targetUserId) ==
  /\ CanStartRel(u)
  /\ StartRel
  /\ LET status == getRelationStatus(u, targetUserId)
         o == [Call(u, "acceptFriendRequest", targetUserId)
                 EXCEPT !.relation = status.relation]
     IN IF status.type # "pending_received"
          THEN NoCall(Begin(u, Throw(o)))
          ELSE relUpdate(u, status.relation.id, "friend",
                         Begin(u, [o EXCEPT !.pc = "update"]))
  /\ UNCHANGED <<rels, errorSignal, restOfRel>>

acceptFriendRequestReciprocal(u) ==
  /\ op[u].name = "acceptFriendRequest" /\ op[u].pc = "update"
  /\ IF ~op[u].ok
       THEN /\ NoCall(Cont(u, Throw(op[u])))
            /\ SetError(u, ErrorMessage(op[u]))
            /\ UNCHANGED rels
       ELSE LET updated == ReplaceById(rels[u], op[u].relation.id, op[u].resp)
                outgoingRelation == FindRelation(updated, u, op[u].target, RelationTypes)
                ops == Cont(u, [op[u] EXCEPT !.pc = "reciprocal"])
            IN /\ rels' = [rels EXCEPT ![u] = updated]
               /\ UNCHANGED errorSignal
               /\ IF outgoingRelation # NoRelation
                    THEN relUpdate(u, outgoingRelation.id, "friend", ops)
                    ELSE relCreate(u, reciprocalData(u, op[u].target), ops)
  /\ UNCHANGED <<budget, restOfRel>>

acceptFriendRequestRefresh(u) ==
  /\ op[u].name = "acceptFriendRequest" /\ op[u].pc = "reciprocal"
  /\ IF ~op[u].ok
       THEN /\ NoCall(Cont(u, Throw(op[u])))
            /\ SetError(u, ErrorMessage(op[u]))
       ELSE /\ SetError(u, "")                  \* fetchRelations begins
            /\ \/ NoCall(Cont(u, [op[u] EXCEPT !.pc = "fetch",
                                                !.items = fetchRelationsList(u)]))
               \/ TransportFailure(u, Cont(u, [op[u] EXCEPT !.pc = "fetch"]))
  /\ UNCHANGED <<rels, budget, restOfRel>>

acceptFriendRequestResume(u) ==
  /\ op[u].name = "acceptFriendRequest" /\ op[u].pc = "fetch"
  /\ rels' = [rels EXCEPT ![u] = IF op[u].ok THEN op[u].items ELSE @]
  /\ errorSignal' = [errorSignal EXCEPT ![u] = IF op[u].ok THEN @ ELSE ErrorMessage(op[u])]
  /\ op' = Cont(u, Return([op[u] EXCEPT !.items = <<>>]))
  /\ UNCHANGED <<dbRel, nextId, relQ, faults, budget, restOfRel>>

\* fetchRelations called by itself (the store's initialisation, a component
\* after a relation action): errorSignal.set(null), then the getList
fetchRelations(u) ==
  /\ CanStartRel(u)
  /\ StartRel
  /\ LET o == Call(u, "fetchRelations", NoUser)
     IN IF currentUser[u] = NoUser
          THEN NoCall(Begin(u, Return(o))) /\ UNCHANGED errorSignal
          ELSE /\ SetError(u, "")
               /\ \/ NoCall(Begin(u, [o EXCEPT !.pc = "fetch",
                                                !.items = fetchRelationsList(u)]))
                  \/ TransportFailure(u, Begin(u, [o EXCEPT !.pc = "fetch"]))
  /\ UNCHANGED <<rels, restOfRel>>

\* variant: a failed fetch empties the collection
fetchRelationsResumeClearing(u) ==
  /\ op[u].name = "fetchRelations" /\ op[u].pc = "fetch"
  /\ rels' = [rels EXCEPT ![u] = IF op[u].ok THEN op[u].items ELSE <<>>]
  /\ errorSignal' = [errorSignal EXCEPT ![u] = IF op[u].ok THEN @ ELSE ErrorMessage(op[u])]
  /\ op' = Cont(u, Return([op[u] EXCEPT !.items = <<>>]))
  /\ UNCHANGED <<dbRel, nextId, relQ, faults, budget, restOfRel>>

\* relationsSignal.set(resultList.items), or the catch: errorSignal.set
fetchRelationsResume(u) ==
  /\ op[u].name = "fetchRelations" /\ op[u].pc = "fetch"
  /\ rels' = [rels EXCEPT ![u] = IF op[u].ok THEN op[u].items ELSE @]
  /\ errorSignal' = [errorSignal EXCEPT ![u] = IF op[u].ok THEN @ ELSE ErrorMessage(op[u])]
  /\ op' = Cont(u, Return([op[u] EXCEPT !.items = <<>>]))
  /\ UNCHANGED <<dbRel, nextId, relQ, faults, budget, restOfRel>>

\* reject / cancel / unblock: one delete of status.relation, then a filter
deleteRelation(u, name, targetUserId, allowed) ==
  /\ CanStartRel(u)
  /\ StartRel
  /\ LET status == getRelationStatus(u, targetUserId)
         o == [Call(u, name, targetUserId) EXCEPT !.relation = status.relation]
     IN IF ~allowed
          THEN NoCall(Begin(u, Throw(o)))
          ELSE relDelete(u, status.relation.id, Begin(u, [o EXCEPT !.pc = "delete"]))
  /\ UNCHANGED <<rels, errorSignal, restOfRel>>

rejectFriendRequest(u, targetUserId) ==
  deleteRelation(u, "rejectFriendRequest", targetUserId,
                 getRelationStatus(u, targetUserId).type = "pending_received")

\* variant: the request is cancelled whatever the status
cancelFriendRequestAnyStatus(u, targetUserId) ==
  deleteRelation(u, "cancelFriendRequest", targetUserId, TRUE)

cancelFriendRequest(u, targetUserId) ==
  deleteRelation(u, "cancelFriendRequest", targetUserId,
                 getRelationStatus(u, targetUserId).type = "pending_sent")

\* variant: either side of a block may lift it
unblockUserByEither(u, targetUserId) ==
  deleteRelation(u, "unblockUser", targetUserId,
                 getRelationStatus(u, targetUserId).type = "blocked")

unblockUser(u, targetUserId) ==
  deleteRelation(u, "unblockUser", targetUserId,
                 LET status == getRelationStatus(u, targetUserId)
                 IN status.type = "blocked" /\ status.isInitiatedByMe)

deleteRelationResume(u) ==
  /\ op[u].name \in {"rejectFriendRequest", "cancelFriendRequest", "unblockUser"}
  /\ op[u].pc = "delete"
  /\ IF op[u].ok
       THEN /\ rels' = [rels EXCEPT ![u] =
                          RemoveById(@, op[u].relation.id)]
            /\ op' = Cont(u, Return(op[u]))
            /\ UNCHANGED errorSignal
       ELSE /\ UNCHANGED rels
            /\ op' = Cont(u, Throw(op[u]))
            /\ SetError(u, ErrorMessage(op[u]))
  /\ UNCHANGED <<dbRel, nextId, relQ, faults, budget, restOfRel>>

\* blockUser from `const status = ...` on, over the in-memory collection rs
\* (the collection as removeFriend left it, when blockUser ran it first)
blockUserBody(u, rs, o, ops) ==
  LET status == RelationStatus(rs, u, o.target)
      next == [ops EXCEPT ![u] = [o EXCEPT !.pc = "block", !.relation = status.relation]]
  IN IF status.type = "blocked" /\ status.isInitiatedByMe
       THEN /\ NoCall([ops EXCEPT ![u] = Throw(o)])
            /\ SetError(u, "already_blocked")
       ELSE /\ UNCHANGED errorSignal
            /\ IF status.type = "blocked" /\ ~status.isInitiatedByMe
                 THEN relCreate(u, blockedData(u, o.target), next)
               ELSE IF status.relation # NoRelation
                 THEN relUpdate(u, status.relation.id, "blocked", next)
               ELSE relCreate(u, blockedData(u, o.target), next)

\* removeFriend from its first delete on
removeFriendBody(u, o, ops) ==
  LET status == getRelationStatus(u, o.target)
  IN relDelete(u, status.relation.id,
               [ops EXCEPT ![u] = [o EXCEPT !.pc = "delete", !.relation = status.relation]])

removeFriend(u, targetUserId) ==
  /\ CanStartRel(u)
  /\ StartRel
  /\ LET o == Call(u, "removeFriend", targetUserId)
     IN IF o.status # "friend"
          THEN NoCall(Begin(u, Throw(o)))
          ELSE removeFriendBody(u, o, Begin(u, o))
  /\ UNCHANGED <<rels, errorSignal, restOfRel>>

blockUser(u, targetUserId) ==
  /\ CanStartRel(u)
  /\ StartRel
  /\ LET o == Call(u, "blockUser", targetUserId)
     IN IF u = targetUserId
          THEN NoCall(Begin(u, Throw(o))) /\ UNCHANGED errorSignal
        ELSE IF areFriends(u, targetUserId)
          THEN removeFriendBody(u, o, Begin(u, o)) /\ UNCHANGED errorSignal
        ELSE blockUserBody(u, rels[u], o, Begin(u, o))
  /\ UNCHANGED <<rels, restOfRel>>

\* removeFriend's `Update local state`, then its caller's continuation
removeFriendFinish(u, removed) ==
  LET rs == SelectSeq(rels[u], LAMBDA r : ~(r.id \in removed /\ r.type = "friend"))
  IN /\ rels' = [rels EXCEPT ![u] = rs]
     /\ IF op[u].name = "blockUser"
          THEN blockUserBody(u, rs, op[u], op)
          ELSE NoCall(Cont(u, Return(op[u]))) /\ UNCHANGED errorSignal

removeFriendReciprocal(u) ==
  /\ op[u].name \in {"removeFriend", "blockUser"} /\ op[u].pc = "delete"
  /\ IF ~op[u].ok
       THEN /\ NoCall(Cont(u, Throw(op[u])))
            /\ SetError(u, ErrorMessage(op[u]))
            /\ UNCHANGED rels
       ELSE LET reciprocal == FindRelation(rels[u], op[u].target, u, {"friend"})
            IN IF reciprocal # NoRelation
                 THEN /\ relDelete(u, reciprocal.id,
                            Cont(u, [op[u] EXCEPT !.pc = "reciprocal",
                                                  !.reciprocal = reciprocal]))
                      /\ UNCHANGED <<rels, errorSignal>>
                 ELSE removeFriendFinish(u, {op[u].relation.id})
  /\ UNCHANGED <<budget, restOfRel>>

removeFriendResume(u) ==
  /\ op[u].name \in {"removeFriend", "blockUser"} /\ op[u].pc = "reciprocal"
  /\ IF ~op[u].ok
       THEN /\ NoCall(Cont(u, Throw(op[u])))
            /\ SetError(u, ErrorMessage(op[u]))
            /\ UNCHANGED rels
       ELSE removeFriendFinish(u, {op[u].relation.id, op[u].reciprocal.id})
  /\ UNCHANGED <<budget, restOfRel>>

blockUserResume(u) ==
  /\ op[u].name = "blockUser" /\ op[u].pc = "block"
  /\ IF op[u].ok
       THEN /\ rels' = [rels EXCEPT ![u] =
                 IF op[u].relation # NoRelation
                   THEN ReplaceById(@, op[u].relation.id, op[u].resp)
                   ELSE Append(@, op[u].resp)]
            /\ op' = Cont(u, Return(op[u]))
            /\ UNCHANGED errorSignal
       ELSE /\ UNCHANGED rels
            /\ op' = Cont(u, Throw(op[u]))
            /\ SetError(u, ErrorMessage(op[u]))
  /\ UNCHANGED <<dbRel, nextId, relQ, faults, budget, restOfRel>>

\* ------------------------------------- RelationService: realtime events
restOfEvents == <<dbRel, dbConv, dbMsg, msgStore, nextId, clock, convs, convQ, convH, op,
                  budget, errorSignal, currentUser, relUnsubscribe>>

\* the subscription callback up to the handler's first await
subscribeToRelations(u) ==
  /\ relQ[u] # <<>>
  /\ relQ' = [relQ EXCEPT ![u] = Tail(@)]
  /\ LET action == Head(relQ[u]).action
         record == Head(relQ[u]).record
     IN IF record.from_user # u /\ record.to_user # u
          THEN UNCHANGED <<rels, processingIds, relH>>
        ELSE IF action = "create"
          THEN /\ UNCHANGED rels
               /\ IF record.id \in processingIds[u]
                    THEN UNCHANGED <<processingIds, relH>>
                    ELSE /\ processingIds' = [processingIds EXCEPT ![u] = @ \cup {record.id}]
                         /\ relH' = [relH EXCEPT ![u] = @ \cup {Event("create", record)}]
        ELSE IF action = "update"
          THEN /\ relH' = [relH EXCEPT ![u] = @ \cup {Event("update", record)}]
               /\ UNCHANGED <<rels, processingIds>>
        ELSE \* handleRelationDelete
               /\ rels' = [rels EXCEPT ![u] = RemoveById(@, record.id)]
               /\ UNCHANGED <<processingIds, relH>>
  /\ UNCHANGED <<restOfEvents, faults>>

\* the realtime channel delivers the create event at the head of u's queue a
\* second time, right behind the first delivery
redeliverRelationCreate(u) ==
  /\ relQ[u] # <<>>
  /\ Head(relQ[u]).action = "create"
  /\ \A i \in 2..Len(relQ[u]) : relQ[u][i] # Head(relQ[u])
  /\ relQ' = [relQ EXCEPT ![u] = <<Head(@)>> \o @]
  /\ UNCHANGED <<rels, processingIds, relH, restOfEvents, faults>>

\* The outcomes of a handler's getOne(record.id): the backend's record; when
\* the record is gone (404), or the fetch fails in transport, the handler
\* carries on with the record the event brought.
getOneRelation(record) ==
  LET stored == {r \in dbRel : r.id = record.id}
  IN {[record |-> r, failed |-> FALSE] : r \in stored}
     \cup (IF stored = {} THEN {[record |-> record, failed |-> FALSE]} ELSE {})
     \cup (IF stored \notin {{}, {record}} /\ faults < MaxFaults
            THEN {[record |-> record, failed |-> TRUE]} ELSE {})

\* variant: the marker of the identifier is left in place
handleRelationCreateMarked(u, h) ==
  /\ h \in relH[u] /\ h.action = "create"
  /\ \E got \in getOneRelation(h.record) :
       /\ rels' = [rels EXCEPT ![u] = AppendIfAbsent(@, got.record)]
       /\ faults' = IF got.failed THEN faults + 1 ELSE faults
  /\ relH' = [relH EXCEPT ![u] = @ \ {h}]
  /\ UNCHANGED <<processingIds, relQ, restOfEvents>>

handleRelationCreate(u, h) ==
  /\ h \in relH[u] /\ h.action = "create"
  /\ \E got \in getOneRelation(h.record) :
       /\ rels' = [rels EXCEPT ![u] = AppendIfAbsent(@, got.record)]
       /\ faults' = IF got.failed THEN faults + 1 ELSE faults
  /\ processingIds' = [processingIds EXCEPT ![u] = @ \ {h.record.id}]
  /\ relH' = [relH EXCEPT ![u] = @ \ {h}]
  /\ UNCHANGED <<relQ, restOfEvents>>

handleRelationUpdate(u, h) ==
  /\ h \in relH[u] /\ h.action = "update"
  /\ \E got \in getOneRelation(h.record) :
       /\ rels' = [rels EXCEPT ![u] = RetypeById(@, got.record.id, got.record.type)]
       /\ faults' = IF got.failed THEN faults + 1 ELSE faults
  /\ relH' = [relH EXCEPT ![u] = @ \ {h}]
  /\ UNCHANGED <<processingIds, relQ, restOfEvents>>

\* ---------------------------------------------- backend: 'conversations'
NoConvWrite == UNCHANGED <<dbConv, nextId, convQ, clock>>

ConvTransportFailure(u, ops) ==
  /\ faults < MaxFaults
  /\ faults' = faults + 1
  /\ op' = [ops EXCEPT ![u].ok = FALSE, ![u].fault = TRUE]
  /\ NoConvWrite

NoConvCall(ops) == op' = ops /\ NoConvWrite /\ UNCHANGED faults

convCreate(u, otherUserId, ops) ==
  \/ /\ LET c == IConversation(nextId, {u, otherUserId}, clock + 1)
        IN /\ dbConv' = dbConv \cup {c}
           /\ convQ' = Broadcast(convQ, Event("create", c))
           /\ op' = [ops EXCEPT ![u].ok = TRUE, ![u].conv = c, ![u].step = @ + 1]
     /\ nextId' = nextId + 1
     /\ clock' = clock + 1
     /\ UNCHANGED faults
  \/ ConvTransportFailure(u, ops)

\* update(conversationId, {updated: now})
convUpdate(u, id, ops) ==
  \/ \E c \in dbConv :
       /\ c.id = id
       /\ LET n == [c EXCEPT !.updated = clock + 1]
          IN /\ dbConv' = (dbConv \ {c}) \cup {n}
             /\ convQ' = Broadcast(convQ, Event("update", n))
             /\ op' = [ops EXCEPT ![u].ok = TRUE, ![u].step = @ + 1]
       /\ clock' = clock + 1
       /\ UNCHANGED <<nextId, faults>>
  \/ /\ \A c \in dbConv : c.id # id          \* 404
     /\ op' = [ops EXCEPT ![u].ok = FALSE]
     /\ NoConvWrite /\ UNCHANGED faults
  \/ /\ \E c \in dbConv : c.id = id
     /\ ConvTransportFailure(u, ops)

\* --------------------------------------------------- ConversationService
restOfConv == <<dbRel, dbMsg, msgStore, rels, processingIds, relQ, relH, errorSignal,
               currentUser, relUnsubscribe, convH>>

\* getOtherParticipant, by identifier
getOtherParticipant(u, conversation) ==
  IF \E p \in conversation.participants : p # u
    THEN CHOOSE p \in conversation.participants : p # u
    ELSE NoUser

\* variant: the query keeps a friendship only when both edges are stored
friendshipRelationsMutual(u, otherId) ==
  LET both == {r \in dbRel :
                 \/ r.from_user = u /\ r.to_user = otherId /\ r.type = "friend"
                 \/ r.from_user = otherId /\ r.to_user = u /\ r.type = "friend"}
  IN IF \E r \in both : r.from_user = u THEN
       IF \E r \in both : r.from_user = otherId THEN both ELSE {}
     ELSE {}

\* the friendship query of fetchConversations and of the create/update
\* handler: getList(1, 1, (me -> other, friend) || (other -> me, friend))
friendshipRelations(u, otherId) ==
  {r \in dbRel : \/ r.from_user = u /\ r.to_user = otherId /\ r.type = "friend"
                 \/ r.from_user = otherId /\ r.to_user = u /\ r.type = "friend"}

\* conversations of a set, most recently updated first (sort: '-updated')
RECURSIVE SortByUpdated(_)
SortByUpdated(S) ==
  IF S = {} THEN <<>>
  ELSE LET m == CHOOSE c \in S : \A d \in S :
                  d.updated < c.updated \/ (d.updated = c.updated /\ d.id <= c.id)
       IN <<m>> \o SortByUpdated(S \ {m})

fetchConversationsList(u) == SortByUpdated({c \in dbConv : u \in c.participants})

\* the for loop of fetchConversations from `items` on, up to its next await
\* (the friendship query of the first conversation that is not blocked) or,
\* past the last item, to conversationsSignal.set
RECURSIVE fetchConversationsLoop(_, _, _)
fetchConversationsLoop(u, items, kept) ==
  IF items = <<>>
    THEN /\ convs' = [convs EXCEPT ![u] = kept]
         /\ op' = Cont(u, Return([op[u] EXCEPT !.items = <<>>, !.kept = <<>>]))
         /\ UNCHANGED faults
  ELSE LET otherParticipant == getOtherParticipant(u, Head(items))
       IN IF \/ otherParticipant = NoUser
             \/ isBlockedByMe(u, otherParticipant)
             \/ isBlockedBy(u, otherParticipant)
            THEN fetchConversationsLoop(u, Tail(items), kept)
            ELSE /\ UNCHANGED convs
                 /\ LET next == [op[u] EXCEPT !.pc = "friendship",
                                              !.items = items, !.kept = kept]
                    IN \/ /\ op' = Cont(u, [next EXCEPT !.ok =
                                 friendshipRelations(u, otherParticipant) # {}])
                          /\ UNCHANGED faults
                       \/ /\ faults < MaxFaults
                          /\ faults' = faults + 1
                          /\ op' = Cont(u, [next EXCEPT !.ok = FALSE, !.fault = TRUE])

fetchConversations(u) ==
  /\ CanStartChat(u)
  /\ StartChat
  /\ LET o == [Call(u, "fetchConversations", Other(u)) EXCEPT !.pc = "list"]
     IN \/ NoConvCall(Begin(u, [o EXCEPT !.items = fetchConversationsList(u)]))
        \/ ConvTransportFailure(u, Begin(u, o))
  /\ UNCHANGED <<convs, restOfConv>>

fetchConversationsFilter(u) ==
  /\ op[u].name = "fetchConversations" /\ op[u].pc = "list"
  /\ IF ~op[u].ok
       THEN /\ op' = Cont(u, Return(op[u]))     \* caught: errorSignal only
            /\ UNCHANGED <<convs, faults>>
       ELSE fetchConversationsLoop(u, op[u].items, <<>>)
  /\ UNCHANGED <<budget, dbConv, nextId, convQ, clock, restOfConv>>

fetchConversationsNext(u) ==
  /\ op[u].name = "fetchConversations" /\ op[u].pc = "friendship"
  /\ fetchConversationsLoop(u, Tail(op[u].items),
        IF op[u].ok THEN Append(op[u].kept, Head(op[u].items)) ELSE op[u].kept)
  /\ UNCHANGED <<budget, dbConv, nextId, convQ, clock, restOfConv>>

\* variant: the lookup finds nothing
existingConversationsNone(u, otherUserId) == {}

\* getList(1, 1, participants ~ me && participants ~ other)
existingConversations(u, otherUserId) ==
  {c \in dbConv : u \in c.participants /\ otherUserId \in c.participants}

\* the frame of a getOrCreateConversation, with the history of the calls
\* before it
ConversationCall(u, otherUserId) ==
  [Call(u, "getOrCreateConversation", otherUserId) EXCEPT
     !.pc = "lookup",
     !.had = Cardinality(existingConversations(u, otherUserId)),
     !.prior = [v \in Users |->
                  IF Idle(v) /\ op[v].name = "getOrCreateConversation"
                    THEN [name |-> op[v].name, target |-> op[v].target,
                          ok |-> op[v].ok, alone |-> op[v].alone,
                          conv |-> op[v].conv.id, had |-> op[v].had]
                    ELSE NoPrior]]

\* variant: the conversation is looked up whatever the status
getOrCreateConversationUnguarded(u, otherUserId) ==
  /\ CanStartChat(u)
  /\ StartChat
  /\ LET o == ConversationCall(u, otherUserId)
         existing == existingConversations(u, otherUserId)
     IN \/ /\ existing = {}
           /\ NoConvCall(Begin(u, o))
        \/ \E c \in existing : NoConvCall(Begin(u, [o EXCEPT !.conv = c]))
        \/ ConvTransportFailure(u, Begin(u, o))
  /\ UNCHANGED <<convs, restOfConv>>

getOrCreateConversation(u, otherUserId) ==
  /\ CanStartChat(u)
  /\ StartChat
  /\ LET o == ConversationCall(u, otherUserId)
         existing == existingConversations(u, otherUserId)
     IN IF o.status # "friend"
          THEN NoConvCall(Begin(u, Throw(o)))
          ELSE \/ /\ existing = {}
                  /\ NoConvCall(Begin(u, o))
               \/ \E c \in existing : NoConvCall(Begin(u, [o EXCEPT !.conv = c]))
               \/ ConvTransportFailure(u, Begin(u, o))
  /\ UNCHANGED <<convs, restOfConv>>

getOrCreateConversationCreate(u) ==
  /\ op[u].name = "getOrCreateConversation" /\ op[u].pc = "lookup"
  /\ IF ~op[u].ok
       THEN NoConvCall(Cont(u, Throw(op[u])))
     ELSE IF op[u].conv # NoConversation
       THEN NoConvCall(Cont(u, Return(op[u])))
     ELSE convCreate(u, op[u].target, Cont(u, [op[u] EXCEPT !.pc = "create"]))
  /\ UNCHANGED <<budget, convs, restOfConv>>

getOrCreateConversationResume(u) ==
  /\ op[u].name = "getOrCreateConversation" /\ op[u].pc = "create"
  /\ IF op[u].ok
       THEN /\ convs' = [convs EXCEPT ![u] = <<op[u].conv>> \o @]
            /\ op' = Cont(u, Return(op[u]))
       ELSE /\ UNCHANGED convs
            /\ op' = Cont(u, Throw(op[u]))
  /\ UNCHANGED <<budget, faults, dbConv, nextId, convQ, clock, restOfConv>>

\* the subscription callback for 'conversations' up to its first await
subscribeToConversations(u) ==
  /\ convQ[u] # <<>>
  /\ convQ' = [convQ EXCEPT ![u] = Tail(@)]
  /\ LET action == Head(convQ[u]).action
         record == Head(convQ[u]).record
     IN IF u \notin record.participants
          THEN UNCHANGED <<convs, convH>>
        ELSE IF action \in {"create", "update"}
          THEN /\ convH' = [convH EXCEPT ![u] = @ \cup
                      {[stage |-> "getOne", action |-> action, record |-> record,
                        ok |-> TRUE]}]
               /\ UNCHANGED convs
        ELSE \* handleConversationDelete
               /\ convs' = [convs EXCEPT ![u] = RemoveById(@, record.id)]
               /\ UNCHANGED convH
  /\ UNCHANGED <<dbRel, dbConv, dbMsg, msgStore, nextId, clock, rels, processingIds,
                 relQ, relH, errorSignal, currentUser, relUnsubscribe, op, budget,
                         faults>>

removeConversation(u, id) ==
  convs' = [convs EXCEPT ![u] = RemoveById(@, id)]

\* handleConversationCreateOrUpdate from the resolution of getOne up to the
\* friendship query
handleConversationCreateOrUpdate(u, h) ==
  /\ h \in convH[u] /\ h.stage = "getOne"
  /\ \/ \E fullRecord \in dbConv :
          /\ fullRecord.id = h.record.id
          /\ LET otherParticipant == getOtherParticipant(u, fullRecord)
             IN IF \/ otherParticipant = NoUser
                   \/ isBlockedByMe(u, otherParticipant)
                   \/ isBlockedBy(u, otherParticipant)
                  THEN /\ removeConversation(u, fullRecord.id)
                       /\ convH' = [convH EXCEPT ![u] = @ \ {h}]
                       /\ UNCHANGED faults
                  ELSE /\ UNCHANGED convs
                       /\ \/ /\ convH' = [convH EXCEPT ![u] = (@ \ {h}) \cup
                                   {[stage |-> "friendship", action |-> h.action,
                                     record |-> fullRecord,
                                     ok |-> friendshipRelations(u, otherParticipant) # {}]}]
                             /\ UNCHANGED faults
                          \/ /\ faults < MaxFaults
                             /\ faults' = faults + 1
                             /\ convH' = [convH EXCEPT ![u] = (@ \ {h}) \cup
                                   {[stage |-> "friendship", action |-> h.action,
                                     record |-> fullRecord, ok |-> FALSE]}]
     \/ /\ \A c \in dbConv : c.id # h.record.id       \* getOne throws: ignored
        /\ convH' = [convH EXCEPT ![u] = @ \ {h}]
        /\ UNCHANGED <<convs, faults>>
     \/ /\ \E c \in dbConv : c.id = h.record.id
        /\ faults < MaxFaults
        /\ faults' = faults + 1
        /\ convH' = [convH EXCEPT ![u] = @ \ {h}]
        /\ UNCHANGED convs
  /\ UNCHANGED <<dbRel, dbConv, dbMsg, msgStore, nextId, clock, rels, processingIds,
                 relQ, relH, errorSignal, currentUser, relUnsubscribe, convQ, op, budget>>

\* ... and from the resolution of the friendship query on
handleConversationResume(u, h) ==
  /\ h \in convH[u] /\ h.stage = "friendship"
  /\ convs' = [convs EXCEPT ![u] =
       IF ~h.ok THEN RemoveById(@, h.record.id)
       ELSE IF \E c \in SeqToSet(@) : c.id = h.record.id
         THEN ReplaceById(@, h.record.id, h.record)
       ELSE <<h.record>> \o @]
  /\ convH' = [convH EXCEPT ![u] = @ \ {h}]
  /\ UNCHANGED <<dbRel, dbConv, dbMsg, msgStore, nextId, clock, rels, processingIds,
                 relQ, relH, errorSignal, currentUser, relUnsubscribe, convQ, op,
                         budget, faults>>

\* ----------------------------------------------------------- ChatService
restOfChat == <<dbRel, rels, processingIds, relQ, relH, errorSignal, currentUser,
        relUnsubscribe, convs,
               convH, msgs, msgH, active, listeners, unsubscribe, loads>>

\* a text is a sequence of characters, at most one of them not a blank
Chars == {" ", "a"}
Texts ==
  {t \in UNION {[1..n -> Chars] : n \in 0..MaxText} :
     Cardinality({i \in 1..Len(t) : t[i] # " "}) <= 1}

RECURSIVE TrimStart(_)
TrimStart(t) == IF t # <<>> /\ Head(t) = " " THEN TrimStart(Tail(t)) ELSE t
RECURSIVE TrimEnd(_)
TrimEnd(t) ==
  IF t # <<>> /\ t[Len(t)] = " " THEN TrimEnd(SubSeq(t, 1, Len(t) - 1)) ELSE t
\* variant: the text is taken as typed
TrimNothing(t) == t
\* text.trim()
Trim(t) == TrimEnd(TrimStart(t))

\* sendMessage / sendFileMessage up to the await in checkBlockStatus; `valid`
\* is the outcome of the checks before the try, `text` the text passed
send(u, name, conversationId, text, valid) ==
  /\ CanStartChat(u)
  /\ StartChat
  /\ LET o == [Call(u, name, Other(u)) EXCEPT
                 !.pc = "conversation", !.text = Trim(text),
                 !.blank = \A i \in 1..Len(text) : text[i] = " "]
     IN IF ~valid
          THEN NoConvCall(Begin(u, Throw(o)))
          ELSE \/ \E c \in dbConv :                     \* getConversationById
                    c.id = conversationId /\ NoConvCall(Begin(u, [o EXCEPT !.conv = c]))
               \/ /\ \A c \in dbConv : c.id # conversationId
                  /\ NoConvCall(Begin(u, o))
               \/ /\ \E c \in dbConv : c.id = conversationId
                  /\ faults < MaxFaults
                  /\ faults' = faults + 1
                  /\ op' = Begin(u, [o EXCEPT !.fault = TRUE])  \* caught: returns null
                  /\ NoConvWrite
  /\ UNCHANGED <<dbMsg, msgQ, restOfChat>>

sendMessage(u, conversationId, text) ==
  send(u, "sendMessage", conversationId, text,
       currentUser[u] # NoUser /\ Trim(text) # <<>>)

sendFileMessage(u, conversationId) ==
  send(u, "sendFileMessage", conversationId, <<>>, currentUser[u] # NoUser)

\* the live listeners of v whose filter (conversation = conversationId) the
\* message passes
Subscribed(v, m) == {l \in listeners[v] : l.live /\ l.conversationId = m.conversation}

\* the event as the backend sends it to each listener of ls, lowest id first
RECURSIVE Deliveries(_, _, _)
Deliveries(ls, action, record) ==
  IF ls = {} THEN <<>>
  ELSE LET l == CHOOSE x \in ls : \A y \in ls : x.id <= y.id
       IN <<[action |-> action, record |-> record, listener |-> l.id]>>
            \o Deliveries(ls \ {l}, action, record)

\* the rest of checkBlockStatus, then the create of the message record
checkBlockStatus(u) ==
  /\ op[u].name \in {"sendMessage", "sendFileMessage"} /\ op[u].pc = "conversation"
  /\ LET conversation == op[u].conv
         otherUserId == getOtherParticipant(u, conversation)
     IN IF \/ conversation = NoConversation
           \/ otherUserId = NoUser
           \/ isBlockedByMe(u, otherUserId)
           \/ isBlockedBy(u, otherUserId)
          THEN /\ op' = Cont(u, Throw(op[u]))
               /\ UNCHANGED <<dbMsg, msgQ, nextId, faults>>
          ELSE \/ /\ LET m == IMessage(nextId, conversation.id, u, op[u].name)
                     IN /\ dbMsg' = dbMsg \cup {m}
                        /\ msgQ' = [v \in Users |->
                                      msgQ[v] \o Deliveries(Subscribed(v, m), "create", m)]
                  /\ nextId' = nextId + 1
                  /\ op' = Cont(u, [op[u] EXCEPT !.pc = "message", !.ok = TRUE,
                                                 !.msg = nextId, !.step = @ + 1])
                  /\ UNCHANGED faults
               \/ /\ faults < MaxFaults
                  /\ faults' = faults + 1
                  /\ op' = Cont(u, [op[u] EXCEPT !.pc = "message", !.ok = FALSE,
                                                 !.fault = TRUE])
                  /\ UNCHANGED <<dbMsg, msgQ, nextId>>
  /\ UNCHANGED <<budget, dbConv, convQ, clock, restOfChat>>

\* the update of the conversation's timestamp
sendBump(u) ==
  /\ op[u].name \in {"sendMessage", "sendFileMessage"} /\ op[u].pc = "message"
  /\ IF ~op[u].ok
       THEN NoConvCall(Cont(u, Throw(op[u])))
       ELSE convUpdate(u, op[u].conv.id, Cont(u, [op[u] EXCEPT !.pc = "bump"]))
  /\ UNCHANGED <<budget, dbMsg, msgQ, restOfChat>>

\* variant: a failed update of the timestamp deletes the message
sendResumeRollingBack(u) ==
  /\ op[u].name \in {"sendMessage", "sendFileMessage"} /\ op[u].pc = "bump"
  /\ op' = Cont(u, IF op[u].ok THEN Return(op[u]) ELSE Throw(op[u]))
  /\ dbMsg' = IF op[u].ok THEN dbMsg ELSE {m \in dbMsg : m.id # op[u].msg}
  /\ UNCHANGED <<budget, faults, msgQ, dbConv, nextId, convQ, clock, restOfChat>>

sendResume(u) ==
  /\ op[u].name \in {"sendMessage", "sendFileMessage"} /\ op[u].pc = "bump"
  /\ op' = Cont(u, IF op[u].ok THEN Return(op[u]) ELSE Throw(op[u]))
  /\ UNCHANGED <<budget, faults, dbMsg, msgQ, dbConv, nextId, convQ, clock, restOfChat>>

\* ------------------------------------- ChatService: the message collection
restOfMsg == <<dbRel, dbConv, dbMsg, nextId, clock, rels, processingIds, relQ, relH,
               errorSignal, currentUser, relUnsubscribe, convs, convQ, convH>>

\* records of a set, lowest identifier first (sort: 'created')
RECURSIVE SortByCreated(_)
SortByCreated(S) ==
  IF S = {} THEN <<>>
  ELSE LET m == CHOOSE r \in S : \A q \in S : r.id <= q.id
       IN <<m>> \o SortByCreated(S \ {m})

\* fetchMessages' getList: the messages of the conversation, oldest first
fetchMessagesList(conversationId) ==
  SortByCreated({m \in dbMsg : m.conversation = conversationId})

\* unsubscribeFromMessages: the listener this.unsubscribe removes is gone, and
\* with it the events it has not been called with; nothing when unset
unsubscribeFromMessages(u) ==
  /\ listeners' = [listeners EXCEPT ![u] = {l \in @ : l.id # unsubscribe[u]}]
  /\ unsubscribe' = [unsubscribe EXCEPT ![u] = 0]
  /\ msgQ' = [msgQ EXCEPT ![u] = SelectSeq(@, LAMBDA ev : ev.listener # unsubscribe[u])]

\* the chat page's loadConversation, started by the effect for a conversation
\* of the collection other than the current one, up to the await in
\* fetchMessages; `left` is history: the conversation that was current
loadConversation(u, conversation) ==
  /\ loadLeft > 0
  /\ StartLoad
  /\ conversation \in SeqToSet(convs[u])
  /\ conversation.id # active[u]
  /\ active' = [active EXCEPT ![u] = conversation.id]
  /\ unsubscribeFromMessages(u)
  /\ LET l == [n |-> loadLeft, conv |-> conversation, ok |-> TRUE, items |-> <<>>,
               left |-> active[u]]
     IN \/ /\ loads' = [loads EXCEPT ![u] =
                           @ \cup {[l EXCEPT !.items = fetchMessagesList(conversation.id)]}]
           /\ UNCHANGED faults
        \/ /\ faults < MaxFaults
           /\ faults' = faults + 1
           /\ loads' = [loads EXCEPT ![u] = @ \cup {[l EXCEPT !.ok = FALSE]}]
  /\ UNCHANGED <<msgs, msgH, op, restOfMsg>>

\* the effect's other branch: the route names no conversation any more
clearConversation(u) ==
  /\ loadLeft > 0
  /\ StartLoad
  /\ active[u] # 0
  /\ active' = [active EXCEPT ![u] = 0]
  /\ unsubscribeFromMessages(u)
  /\ UNCHANGED <<msgs, msgH, loads, op, faults, restOfMsg>>

\* the smallest listener identifier not in use in u's session
NewListener(u) ==
  CHOOSE i \in 1..(Cardinality(listeners[u]) + 1) :
    /\ \A l \in listeners[u] : l.id # i
    /\ \A j \in 1..(i - 1) : \E l \in listeners[u] : l.id = j

\* fetchMessages from its await on: messagesSignal.set(resultList.items), or
\* the caught failure; then subscribeToMessages(conversation.id) registers a
\* listener, unless the subscribe call fails, which is caught in silence
loadConversationResume(u, l) ==
  /\ l \in loads[u]
  /\ msgs' = [msgs EXCEPT ![u] = IF l.ok THEN l.items ELSE @]
  /\ loads' = [loads EXCEPT ![u] = @ \ {l}]
  /\ \/ /\ listeners' = [listeners EXCEPT ![u] =
                            @ \cup {Listener(NewListener(u), l.conv.id, FALSE)}]
        /\ UNCHANGED faults
     \/ /\ faults < MaxFaults
        /\ faults' = faults + 1
        /\ UNCHANGED listeners
  /\ UNCHANGED <<msgQ, msgH, active, unsubscribe, op, budget, restOfMsg>>

\* the subscribe call resolves: the listener is live and this.unsubscribe is
\* the function that removes it
subscribeToMessagesThen(u, l) ==
  /\ l \in listeners[u] /\ ~l.live
  /\ listeners' = [listeners EXCEPT ![u] = (@ \ {l}) \cup {[l EXCEPT !.live = TRUE]}]
  /\ unsubscribe' = [unsubscribe EXCEPT ![u] = l.id]
  /\ UNCHANGED <<msgs, msgQ, msgH, active, loads, op, budget, faults, restOfMsg>>

\* the subscription callback for 'messages' up to the handler's first await;
\* conversationId is the argument its subscribeToMessages call was given
subscribeToMessages(u) ==
  /\ msgQ[u] # <<>>
  /\ msgQ' = [msgQ EXCEPT ![u] = Tail(@)]
  /\ LET action == Head(msgQ[u]).action
         record == Head(msgQ[u]).record
         conversationId ==
           (CHOOSE l \in listeners[u] : l.id = Head(msgQ[u]).listener).conversationId
     IN IF record.conversation # conversationId \/ action # "create"
          THEN UNCHANGED msgH
          ELSE msgH' = [msgH EXCEPT ![u] = @ \cup {record}]
  /\ UNCHANGED <<msgs, active, listeners, unsubscribe, loads, op, budget, faults,
                 restOfMsg>>

\* handleMessageCreate from the resolution of getOne(record.user) on: the
\* message is added unless present; a failed fetch is caught and adds nothing
handleMessageCreate(u, record) ==
  /\ record \in msgH[u]
  /\ \/ /\ msgs' = [msgs EXCEPT ![u] = AppendIfAbsent(@, record)]
        /\ UNCHANGED faults
     \/ /\ faults < MaxFaults
        /\ faults' = faults + 1
        /\ UNCHANGED msgs
  /\ msgH' = [msgH EXCEPT ![u] = @ \ {record}]
  /\ UNCHANGED <<msgQ, active, listeners, unsubscribe, loads, op, budget, restOfMsg>>

\* ------------------------------------------------------------ the system
\* The two sessions open (RelationService's constructor fetches the relations,
\* the chat page's constructor fetches the conversations) against a backend
\* that earlier use has left in one of these configurations: no relation, a
\* pending request, a mutual friendship; with or without a conversation from
\* an earlier friendship.
SequentialRelations ==
  { {},
    {IRelation(1, "A", "B", "pending_sent")},
    {IRelation(1, "A", "B", "friend"), IRelation(2, "B", "A", "friend")} }

\* ... or the leftover of an accept that raced with a block, which RelSpec
\* reaches from the pending request (RacedBlockReachable)
InitialRelations ==
  SequentialRelations \cup
    { {IRelation(1, "A", "B", "blocked"), IRelation(2, "B", "A", "friend")} }

InitialConversations == { {}, {IConversation(3, Users, 0)} }

\* what fetchConversations keeps when nothing else runs meanwhile
visibleConversations(u) ==
  SelectSeq(fetchConversationsList(u), LAMBDA c :
    LET otherParticipant == getOtherParticipant(u, c)
    IN /\ ~isBlockedByMe(u, otherParticipant)
       /\ ~isBlockedBy(u, otherParticipant)
       /\ friendshipRelations(u, otherParticipant) # {})

Opened(relations, conversations, relCalls, chatCalls) ==
  /\ dbRel \in relations
  /\ dbConv \in conversations
  /\ dbMsg = {}
  /\ nextId = 4 /\ clock = 0
  /\ rels = [u \in Users |-> fetchRelationsList(u)]
  /\ processingIds = [u \in Users |-> {}]
  /\ relQ = [u \in Users |-> <<>>]
  /\ relH = [u \in Users |-> {}]
  /\ errorSignal = [u \in Users |-> ""]
  /\ currentUser = [u \in Users |-> u]
  /\ relUnsubscribe = [u \in Users |-> TRUE]
  /\ convs = [u \in Users |-> visibleConversations(u)]
  /\ convQ = [u \in Users |-> <<>>]
  /\ convH = [u \in Users |-> {}]
  /\ msgs = [u \in Users |-> <<>>]
  /\ msgQ = [u \in Users |-> <<>>]
  /\ msgH = [u \in Users |-> {}]
  /\ active = [u \in Users |-> 0]
  /\ listeners = [u \in Users |-> {}]
  /\ unsubscribe = [u \in Users |-> 0]
  /\ loads = [u \in Users |-> {}]
  /\ op = [u \in Users |-> NoOp]
  /\ relLeft = relCalls /\ chatLeft = chatCalls /\ loadLeft = 0
  /\ faults = 0

Init == Opened(InitialRelations, InitialConversations, MaxChatRelOps, MaxChatOps)

RelInit == Opened(SequentialRelations, {{}}, MaxRelOps, 0)

Next ==
  \/ \E u, t \in Users :
       \/ sendFriendRequest(u, t)
       \/ acceptFriendRequest(u, t)
       \/ rejectFriendRequest(u, t)
       \/ cancelFriendRequest(u, t)
       \/ removeFriend(u, t)
       \/ blockUser(u, t)
       \/ unblockUser(u, t)
       \/ getOrCreateConversation(u, t)
  \/ \E u \in Users :
       \/ sendFriendRequestResume(u)
       \/ acceptFriendRequestReciprocal(u)
       \/ acceptFriendRequestRefresh(u)
       \/ acceptFriendRequestResume(u)
       \/ deleteRelationResume(u)
       \/ removeFriendReciprocal(u)
       \/ removeFriendResume(u)
       \/ blockUserResume(u)
       \/ subscribeToRelations(u)
       \/ \E h \in relH[u] : handleRelationCreate(u, h) \/ handleRelationUpdate(u, h)
       \/ fetchConversations(u)
       \/ fetchConversationsFilter(u)
       \/ fetchConversationsNext(u)
       \/ getOrCreateConversationCreate(u)
       \/ getOrCreateConversationResume(u)
       \/ subscribeToConversations(u)
       \/ \E h \in convH[u] :
            handleConversationCreateOrUpdate(u, h) \/ handleConversationResume(u, h)
       \/ \E c \in dbConv :
            \/ \E text \in Texts : sendMessage(u, c.id, text)
            \/ sendFileMessage(u, c.id)
       \/ checkBlockStatus(u)
       \/ sendBump(u)
       \/ sendResume(u)

Spec == Init /\ [][Next]_vars

RelNext ==
  \/ \E u, t \in Users :
       \/ sendFriendRequest(u, t)
       \/ acceptFriendRequest(u, t)
       \/ rejectFriendRequest(u, t)
       \/ cancelFriendRequest(u, t)
       \/ removeFriend(u, t)
       \/ blockUser(u, t)
       \/ unblockUser(u, t)
  \/ \E u \in Users :
       \/ sendFriendRequestResume(u)
       \/ acceptFriendRequestReciprocal(u)
       \/ acceptFriendRequestRefresh(u)
       \/ acceptFriendRequestResume(u)
       \/ deleteRelationResume(u)
       \/ removeFriendReciprocal(u)
       \/ removeFriendResume(u)
       \/ blockUserResume(u)
       \/ subscribeToRelations(u)
       \/ \E h \in relH[u] : handleRelationCreate(u, h) \/ handleRelationUpdate(u, h)

RelSpec == RelInit /\ [][RelNext]_vars

\* unsubscribeFromRelations: the listener is removed and the events it had not
\* been handed yet are not dispatched; handlers already running go on
unsubscribeFromRelations(u) ==
  IF relUnsubscribe[u]
  THEN /\ relUnsubscribe' = [relUnsubscribe EXCEPT ![u] = FALSE]
       /\ relQ' = [relQ EXCEPT ![u] = <<>>]
  ELSE UNCHANGED <<relUnsubscribe, relQ>>

\* UserSearch.ngOnDestroy: the search page of session u is left
ngOnDestroy(u) ==
  /\ unsubscribeFromRelations(u)
  /\ UNCHANGED <<dbRel, dbConv, dbMsg, msgStore, nextId, clock, rels, processingIds,
                 relH, convs, convQ, convH, op, budget, faults, errorSignal,
                 currentUser>>

\* Requests sent and cancelled while the search page may be left
LifeInit == Opened(SequentialRelations, {{}}, MaxLifeOps, 0)

LifeNext ==
  \/ \E u, t \in Users :
       \/ sendFriendRequest(u, t)
       \/ cancelFriendRequest(u, t)
  \/ \E u \in Users :
       \/ sendFriendRequestResume(u)
       \/ deleteRelationResume(u)
       \/ subscribeToRelations(u)
       \/ \E h \in relH[u] : handleRelationCreate(u, h)
       \/ ngOnDestroy(u)

\* every response, event and handler is eventually served; user actions and
\* page changes are not forced
LifeFairness ==
  \A u \in Users :
    /\ WF_vars(sendFriendRequestResume(u))
    /\ WF_vars(deleteRelationResume(u))
    /\ WF_vars(subscribeToRelations(u))
    /\ WF_vars(\E h \in relH[u] : handleRelationCreate(u, h))

LifeSpec == LifeInit /\ [][LifeNext]_vars /\ LifeFairness

\* Requests sent, cancelled and rejected over a channel that may deliver a
\* create event twice
DupInit == Opened(SequentialRelations, {{}}, MaxDupOps, 0)

DupNext ==
  \/ \E u, t \in Users :
       \/ sendFriendRequest(u, t)
       \/ rejectFriendRequest(u, t)
       \/ cancelFriendRequest(u, t)
  \/ \E u \in Users :
       \/ sendFriendRequestResume(u)
       \/ deleteRelationResume(u)
       \/ subscribeToRelations(u)
       \/ \E h \in relH[u] : handleRelationCreate(u, h)
       \/ redeliverRelationCreate(u)

DupSpec == DupInit /\ [][DupNext]_vars

\* fetchRelations among the relation calls: the sessions open on any of the
\* sequential configurations and make MaxFetchOps calls, fetchRelations or a
\* mutation.
FetchInit == Opened(SequentialRelations, {{}}, MaxFetchOps, 0)

FetchNext ==
  \/ RelNext
  \/ \E u \in Users : fetchRelations(u) \/ fetchRelationsResume(u)

FetchSpec == FetchInit /\ [][FetchNext]_vars

\* The sends by themselves: the backend holds the conversation of the two
\* users, each session is signed in or not (a session that is not holds
\* nothing and is subscribed to nothing), and MaxSendOps sends are made.
SendInit ==
  /\ dbRel \in InitialRelations
  /\ dbConv = {IConversation(3, Users, 0)}
  /\ dbMsg = {}
  /\ nextId = 4 /\ clock = 0
  /\ currentUser \in [Users -> Users \cup {NoUser}]
  /\ relUnsubscribe = [u \in Users |-> currentUser[u] # NoUser]
  /\ \A u \in Users : currentUser[u] \in {u, NoUser}
  /\ rels = [u \in Users |->
               IF currentUser[u] = NoUser THEN <<>> ELSE fetchRelationsList(u)]
  /\ processingIds = [u \in Users |-> {}]
  /\ relQ = [u \in Users |-> <<>>]
  /\ relH = [u \in Users |-> {}]
  /\ errorSignal = [u \in Users |-> ""]
  /\ convs = [u \in Users |->
                IF currentUser[u] = NoUser THEN <<>> ELSE visibleConversations(u)]
  /\ convQ = [u \in Users |-> <<>>]
  /\ convH = [u \in Users |-> {}]
  /\ msgs = [u \in Users |-> <<>>]
  /\ msgQ = [u \in Users |-> <<>>]
  /\ msgH = [u \in Users |-> {}]
  /\ active = [u \in Users |-> 0]
  /\ listeners = [u \in Users |-> {}]
  /\ unsubscribe = [u \in Users |-> 0]
  /\ loads = [u \in Users |-> {}]
  /\ op = [u \in Users |-> NoOp]
  /\ relLeft = 0 /\ chatLeft = MaxSendOps /\ loadLeft = 0
  /\ faults = 0

SendNext ==
  \E u \in Users :
    \/ \E c \in dbConv :
         \/ \E text \in Texts : sendMessage(u, c.id, text)
         \/ sendFileMessage(u, c.id)
    \/ checkBlockStatus(u)
    \/ sendBump(u)
    \/ sendResume(u)
    \/ currentUser[u] # NoUser /\ subscribeToConversations(u)
    \/ \E h \in convH[u] :
         handleConversationCreateOrUpdate(u, h) \/ handleConversationResume(u, h)

SendSpec == SendInit /\ [][SendNext]_vars

\* The conversation calls by themselves: the sessions open on any of the
\* configurations and make MaxConvOps getOrCreateConversation calls.
ConvInit == Opened(InitialRelations, InitialConversations, 0, MaxConvOps)

ConvNext ==
  \/ \E u, t \in Users : getOrCreateConversation(u, t)
  \/ \E u \in Users :
       \/ getOrCreateConversationCreate(u)
       \/ getOrCreateConversationResume(u)
       \/ subscribeToConversations(u)
       \/ \E h \in convH[u] :
            handleConversationCreateOrUpdate(u, h) \/ handleConversationResume(u, h)

ConvSpec == ConvInit /\ [][ConvNext]_vars

\* The three collections and their create events: the sessions open on any of
\* the sequential configurations, each on the conversation list or with a
\* visible conversation loaded, and make either MaxChatRelOps friend requests
\* or MaxEventOps conversation and send calls with MaxLoads loads.
EventInit ==
  /\ dbRel \in SequentialRelations
  /\ dbConv \in InitialConversations
  /\ dbMsg = {}
  /\ nextId = 4 /\ clock = 0
  /\ rels = [u \in Users |-> fetchRelationsList(u)]
  /\ processingIds = [u \in Users |-> {}]
  /\ relQ = [u \in Users |-> <<>>]
  /\ relH = [u \in Users |-> {}]
  /\ errorSignal = [u \in Users |-> ""]
  /\ currentUser = [u \in Users |-> u]
  /\ relUnsubscribe = [u \in Users |-> TRUE]
  /\ convs = [u \in Users |-> visibleConversations(u)]
  /\ convQ = [u \in Users |-> <<>>]
  /\ convH = [u \in Users |-> {}]
  /\ msgs = [u \in Users |-> <<>>]
  /\ msgQ = [u \in Users |-> <<>>]
  /\ msgH = [u \in Users |-> {}]
  /\ active \in [Users -> {0} \cup {c.id : c \in dbConv}]
  /\ \A u \in Users : active[u] # 0 => HasId(convs[u], active[u])
  /\ listeners = [u \in Users |->
                   IF active[u] = 0 THEN {} ELSE {Listener(1, active[u], TRUE)}]
  /\ unsubscribe = [u \in Users |-> IF active[u] = 0 THEN 0 ELSE 1]
  /\ loads = [u \in Users |-> {}]
  /\ op = [u \in Users |-> NoOp]
  /\ \/ relLeft = MaxChatRelOps /\ chatLeft = 0 /\ loadLeft = 0
     \/ relLeft = 0 /\ chatLeft = MaxEventOps /\ loadLeft = MaxLoads
  /\ faults = 0

EventNext ==
  \/ \E u, t \in Users :
       \/ sendFriendRequest(u, t)
       \/ getOrCreateConversation(u, t)
  \/ \E u \in Users :
       \/ sendFriendRequestResume(u)
       \/ subscribeToRelations(u)
       \/ \E h \in relH[u] : handleRelationCreate(u, h)
       \/ getOrCreateConversationCreate(u)
       \/ getOrCreateConversationResume(u)
       \/ subscribeToConversations(u)
       \/ \E h \in convH[u] :
            handleConversationCreateOrUpdate(u, h) \/ handleConversationResume(u, h)
       \/ \E c \in dbConv : loadConversation(u, c)
       \/ \E l \in loads[u] : loadConversationResume(u, l)
       \/ \E l \in listeners[u] : subscribeToMessagesThen(u, l)
       \/ clearConversation(u)
       \/ \E c \in dbConv :
            \/ \E text \in Texts : sendMessage(u, c.id, text)
            \/ sendFileMessage(u, c.id)
       \/ checkBlockStatus(u)
       \/ sendBump(u)
       \/ sendResume(u)
       \/ subscribeToMessages(u)
       \/ \E m \in msgH[u] : handleMessageCreate(u, m)

EventSpec == EventInit /\ [][EventNext]_vars

\* The message collection: A is a friend of B and of a third user C, shares
\* conversation 3 with B and conversation 5 with C, and each conversation holds
\* one message.  The sessions of A and B open on the chat page with no
\* conversation selected; the chat page switches between conversations while
\* messages are sent.
Carol == "C"
MsgRelations ==
  { IRelation(1, "A", "B", "friend"), IRelation(2, "B", "A", "friend"),
    IRelation(6, "A", Carol, "friend"), IRelation(7, Carol, "A", "friend") }
MsgConversations == { IConversation(3, Users, 0), IConversation(5, {"A", Carol}, 0) }
MsgMessages == { IMessage(8, 3, "B", "sendMessage"), IMessage(9, 5, Carol, "sendMessage") }

MsgOpened(chatCalls, switches) ==
  /\ dbRel = MsgRelations
  /\ dbConv = MsgConversations
  /\ dbMsg = MsgMessages
  /\ nextId = 10 /\ clock = 0
  /\ rels = [u \in Users |-> fetchRelationsList(u)]
  /\ processingIds = [u \in Users |-> {}]
  /\ relQ = [u \in Users |-> <<>>]
  /\ relH = [u \in Users |-> {}]
  /\ errorSignal = [u \in Users |-> ""]
  /\ currentUser = [u \in Users |-> u]
  /\ relUnsubscribe = [u \in Users |-> TRUE]
  /\ convs = [u \in Users |-> visibleConversations(u)]
  /\ convQ = [u \in Users |-> <<>>]
  /\ convH = [u \in Users |-> {}]
  /\ msgs = [u \in Users |-> <<>>]
  /\ msgQ = [u \in Users |-> <<>>]
  /\ msgH = [u \in Users |-> {}]
  /\ active = [u \in Users |-> 0]
  /\ listeners = [u \in Users |-> {}]
  /\ unsubscribe = [u \in Users |-> 0]
  /\ loads = [u \in Users |-> {}]
  /\ op = [u \in Users |-> NoOp]
  /\ relLeft = 0 /\ chatLeft = chatCalls /\ loadLeft = switches
  /\ faults = 0

MsgInit == MsgOpened(MaxMsgOps, MaxMsgLoads)

MsgNext ==
  \E u \in Users :
    \/ \E c \in dbConv : loadConversation(u, c)
    \/ \E l \in loads[u] : loadConversationResume(u, l)
    \/ \E l \in listeners[u] : subscribeToMessagesThen(u, l)
    \/ clearConversation(u)
    \/ \E c \in dbConv : sendMessage(u, c.id, <<"a">>)
    \/ checkBlockStatus(u)
    \/ sendBump(u)
    \/ sendResume(u)
    \/ subscribeToMessages(u)
    \/ \E m \in msgH[u] : handleMessageCreate(u, m)

MsgSpec == MsgInit /\ [][MsgNext]_vars

\* The message collection of the same sessions while messages are sent one
\* after the other
StreamInit == MsgOpened(MaxStreamOps, MaxStreamLoads)

StreamNext ==
  \E u \in Users :
    \/ \E c \in dbConv : loadConversation(u, c)
    \/ \E l \in loads[u] : loadConversationResume(u, l)
    \/ \E l \in listeners[u] : subscribeToMessagesThen(u, l)
    \/ \E c \in dbConv : sendMessage(u, c.id, <<"a">>)
    \/ checkBlockStatus(u)
    \/ sendBump(u)
    \/ sendResume(u)
    \/ subscribeToMessages(u)
    \/ \E m \in msgH[u] : handleMessageCreate(u, m)

StreamSpec == StreamInit /\ [][StreamNext]_vars

\* every response, subscription and event is eventually served; what the
\* users start (loading a conversation, sending a message) is not forced
StreamFairness ==
  \A u \in Users :
    /\ WF_vars(\E l \in loads[u] : loadConversationResume(u, l))
    /\ WF_vars(\E l \in listeners[u] : subscribeToMessagesThen(u, l))
    /\ WF_vars(checkBlockStatus(u))
    /\ WF_vars(sendBump(u))
    /\ WF_vars(sendResume(u))
    /\ WF_vars(subscribeToMessages(u))
    /\ WF_vars(\E m \in msgH[u] : handleMessageCreate(u, m))

FairStreamSpec == StreamInit /\ [][StreamNext]_vars /\ StreamFairness

\* The conversation collection of the same sessions: conversations fetched
\* again, and their timestamps bumped by the messages sent
OrderInit == MsgOpened(MaxOrderOps, 0)

OrderNext ==
  \E u \in Users :
    \/ fetchConversations(u)
    \/ fetchConversationsFilter(u)
    \/ fetchConversationsNext(u)
    \/ \E c \in dbConv : sendMessage(u, c.id, <<"a">>)
    \/ checkBlockStatus(u)
    \/ sendBump(u)
    \/ sendResume(u)
    \/ subscribeToConversations(u)
    \/ \E h \in convH[u] :
         handleConversationCreateOrUpdate(u, h) \/ handleConversationResume(u, h)

OrderSpec == OrderInit /\ [][OrderNext]_vars

\* getRelationStatus as a function of the in-memory collection alone: the
\* sessions hold any collection of up to MaxStore records among three user
\* identifiers, and a component asks for the status with any of them.
StoreUsers == Users \cup {"C"}
StoreEdges == {e \in StoreUsers \X StoreUsers : e[1] # e[2]}
Stores ==
  UNION {[1..n -> StoreEdges \X RelationTypes] : n \in 0..MaxStore}
StoreOf(f) ==
  [i \in 1..Len(f) |-> IRelation(i, f[i][1][1], f[i][1][2], f[i][2])]

StatusInit ==
  /\ dbRel = {} /\ dbConv = {} /\ dbMsg = {}
  /\ nextId = 4 /\ clock = 0
  /\ \E f \in Stores : rels = [u \in Users |-> StoreOf(f)]
  /\ processingIds = [u \in Users |-> {}]
  /\ relQ = [u \in Users |-> <<>>]
  /\ relH = [u \in Users |-> {}]
  /\ errorSignal = [u \in Users |-> ""]
  /\ currentUser = [u \in Users |-> u]
  /\ relUnsubscribe = [u \in Users |-> TRUE]
  /\ convs = [u \in Users |-> <<>>]
  /\ convQ = [u \in Users |-> <<>>]
  /\ convH = [u \in Users |-> {}]
  /\ msgs = [u \in Users |-> <<>>]
  /\ msgQ = [u \in Users |-> <<>>]
  /\ msgH = [u \in Users |-> {}]
  /\ active = [u \in Users |-> 0]
  /\ listeners = [u \in Users |-> {}]
  /\ unsubscribe = [u \in Users |-> 0]
  /\ loads = [u \in Users |-> {}]
  /\ op = [u \in Users |-> NoOp]
  /\ relLeft = 0 /\ chatLeft = 0 /\ loadLeft = 0
  /\ faults = 0

\* a component reads relationService.getRelationStatus(userId), once per
\* session in a behaviour
statusWith(u, userId) ==
  /\ Idle(u) /\ op[u].name = "none"
  /\ LET status == getRelationStatus(u, userId)
     IN op' = Cont(u, Return([Call(u, "getRelationStatus", userId)
                                 EXCEPT !.relation = status.relation]))
  /\ UNCHANGED <<dbRel, dbConv, dbMsg, msgStore, nextId, clock, rels, processingIds,
                 relQ, relH, errorSignal, currentUser, relUnsubscribe, convs, convQ,
                         convH, budget,
                 faults>>

StatusNext == \E u \in Users : \E userId \in StoreUsers : statusWith(u, userId)

StatusSpec == StatusInit /\ [][StatusNext]_vars

\* ================================================================ properties
Edges(a, b) == {r \in dbRel : r.from_user = a /\ r.to_user = b}
EdgesIn(S, a, b) == {r \in S : r.from_user = a /\ r.to_user = b}
Between(a, b) == Edges(a, b) \cup Edges(b, a)
MutualFriends(a, b) ==
  /\ \E r \in Edges(a, b) : r.type = "friend"
  /\ \E r \in Edges(b, a) : r.type = "friend"
Sends == {"sendMessage", "sendFileMessage"}
\* u's store has processed every relation event
RelationsProcessed(u) == relQ[u] = <<>> /\ relH[u] = {}

\* The leftover of an accept that raced with a block, the last of
\* InitialRelations, arises from the pending request: B accepts while A, whose store still shows
\* its request as pending, blocks B.
RacedBlockReachable ==
  /\ Quiet /\ \A u \in Users : Idle(u) /\ InSync(u)
  /\ Cardinality(dbRel) = 2
  /\ \E r \in Edges("A", "B") : r.type = "blocked"
  /\ \E r \in Edges("B", "A") : r.type = "friend"
  /\ op["A"].name = "blockUser" /\ op["A"].ok
  /\ op["B"].name = "acceptFriendRequest" /\ op["B"].ok
  /\ op["B"].pre = {IRelation(1, "A", "B", "pending_sent")}

\* C1: once blockUser(b) by a has succeeded, whatever the relation was before,
\* and every event is processed, a's status with b is blocked with
\* isInitiatedByMe, b's status with a is blocked without it, and a
\* getOrCreateConversation by the blocked user that follows fails.
C1_BlockSeenFromBothSides ==
  \A a \in Users :
    LET b == Other(a)
        sa == getRelationStatus(a, b)
        sb == getRelationStatus(b, a)
    IN /\ (op[a].name = "blockUser" /\ op[a].target = b /\ op[a].sync /\ Settled(a))
            => /\ sa.type = "blocked" /\ sa.isInitiatedByMe
               /\ sb.type = "blocked" /\ ~sb.isInitiatedByMe
       /\ (/\ op[a].name = "getOrCreateConversation" /\ op[a].pc = "done"
           /\ op[a].alone /\ op[a].after.name = "blockUser" /\ op[a].after.sync)
            => ~op[a].ok

\* C2: when the computed status before was no_relation, pending_sent,
\* pending_received or blocked by the target, a successful blockUser leaves the
\* backend with a blocked edge from the caller to the target and every edge
\* from the target to the caller exactly as it was.
C2_BlockLeavesReverseEdge ==
  \A a \in Users :
    LET b == Other(a)
    IN (/\ op[a].name = "blockUser" /\ op[a].target = b
        /\ op[a].pc = "done" /\ op[a].ok /\ Solo(op[a]) /\ op[a].sync
        /\ \/ op[a].status \in {"no_relation", "pending_sent", "pending_received"}
           \/ op[a].status = "blocked" /\ ~op[a].mine)
         => /\ \E r \in Edges(a, b) : r.type = "blocked"
            /\ Edges(b, a) = EdgesIn(op[a].pre, b, a)

\* C3: while the backend holds a blocked edge in either direction between the
\* sender and the other participant, and the sender's store has processed every
\* relation event, the block check of sendMessage / sendFileMessage ends the
\* call in failure and the sender creates no message record.
C3_BlockedCannotSend ==
  [][\A u \in Users :
       LET other == getOtherParticipant(u, op[u].conv)
       IN (/\ op[u].name \in Sends /\ op[u].pc = "conversation"
           /\ RelationsProcessed(u)
           /\ \E r \in Between(u, other) : r.type = "blocked")
            => /\ {m \in dbMsg' \ dbMsg : m.user = u} = {}
               /\ op'[u].pc \in {"conversation", "done"}
               /\ op'[u].pc = "done" => ~op'[u].ok]_vars

\* C4: when fetchConversations has run to its end, by itself and with every
\* Relation Store mirroring the backend, a conversation of the caller is in its
\* collection exactly when the two participants hold friend edges in both
\* directions and no blocked edge in either.
C4_VisibleIffMutualFriends ==
  \A u \in Users :
    (/\ op[u].name = "fetchConversations" /\ op[u].pc = "done"
     /\ ~op[u].fault /\ Solo(op[u]) /\ op[u].sync)
      => \A c \in dbConv :
           u \in c.participants =>
             LET other == getOtherParticipant(u, c)
             IN c \in SeqToSet(convs[u])
                  <=> /\ MutualFriends(u, other)
                      /\ \A r \in Between(u, other) : r.type # "blocked"

\* the only edge between a and b is one friend edge (a half-completed accept)
OnlyOneFriendEdge(a, b) ==
  Cardinality(Between(a, b)) = 1 /\ \A r \in Between(a, b) : r.type = "friend"
\* computed status not blocked, and a friend edge stored in either direction
Eligible(u, other) ==
  /\ getRelationStatus(u, other).type # "blocked"
  /\ \E r \in Between(u, other) : r.type = "friend"
HasConversation(u, id) == \E c \in SeqToSet(convs[u]) : c.id = id
FetchedAlone(u) ==
  /\ op[u].name = "fetchConversations" /\ op[u].pc = "done"
  /\ ~op[u].fault /\ Solo(op[u])

\* an acceptFriendRequest ended in failure after its first write
HalfAccepted ==
  \E v \in Users : /\ op[v].name = "acceptFriendRequest" /\ op[v].pc = "done"
                    /\ ~op[v].ok /\ op[v].step = 1

BlockedAFriend(bob) ==
  /\ op[bob].name = "blockUser" /\ op[bob].target = Other(bob)
  /\ op[bob].status = "friend" /\ op[bob].sync
  /\ \E r \in EdgesIn(op[bob].pre, bob, Other(bob)) : r.type = "friend"
  /\ \E r \in EdgesIn(op[bob].pre, Other(bob), bob) : r.type = "friend"
  /\ Settled(bob)
\* alice's call came after such a blockUser and nothing overlapped it
AfterBlockOfFriend(alice) ==
  /\ op[alice].pc = "done" /\ op[alice].alone
  /\ op[alice].after.name = "blockUser" /\ op[alice].after.status = "friend"
  /\ op[alice].after.sync

C7_BlockedOnlyFromAbsent ==
  [][\A r \in dbRel : \A n \in dbRel' :
       (n.id = r.id /\ r.type \in {"pending_sent", "friend"}) => n.type # "blocked"]_vars

\* C7 (amended): a blockUser that succeeds on a pending request, sent or
\* received, leaves the very record of the request as the blocked one: its kind
\* changed in place.  A stored record becomes blocked in place only by
\* blockUser updating the record its computed status named; and when that
\* blockUser ran by itself on stores that mirrored the backend, the record was
\* pending_sent, never friend.
C7_OnlyPendingBlockedInPlace ==
  /\ [](\A u \in Users :
          (/\ op[u].name = "blockUser" /\ op[u].pc = "done" /\ op[u].ok
           /\ Solo(op[u]) /\ op[u].sync
           /\ op[u].status \in {"pending_sent", "pending_received"})
            => /\ op[u].resp.id = op[u].relation.id
               /\ op[u].resp.type = "blocked" /\ op[u].resp \in dbRel
               /\ op[u].relation \in op[u].pre)
  /\ [][\A r \in dbRel : \A n \in dbRel' :
          (n.id = r.id /\ r.type # "blocked" /\ n.type = "blocked")
            => \E u \in Users :
                 /\ op'[u].name = "blockUser" /\ op'[u].pc = "block"
                 /\ op'[u].resp = n
                 /\ op'[u].relation.id = r.id
                 /\ (Solo(op'[u]) /\ op'[u].sync) => r.type = "pending_sent"]_vars

\* a blockUser has just updated a pending request in place
C7_Witness ==
  \E u \in Users :
    /\ op[u].name = "blockUser" /\ op[u].pc = "block" /\ op[u].ok
    /\ op[u].relation.type = "pending_sent"
    /\ op[u].resp.id = op[u].relation.id /\ op[u].resp.type = "blocked"
    /\ op[u].resp \in dbRel

\* C8: from the moment blockUser is called on a user the caller's store shows
\* as a friend, with no blocked edge stored and no other call running, the
\* backend never holds a blocked and a friend edge between the two at once and
\* no store shows both, however the delivery of events interleaves.
C8_NeverFriendAndBlocked ==
  \A a \in Users :
    LET b == Other(a)
    IN (/\ op[a].name = "blockUser" /\ op[a].target = b
        /\ op[a].status = "friend" /\ op[a].alone
        /\ \A r \in op[a].pre : r.type # "blocked")
         => /\ ~ /\ \E r \in Between(a, b) : r.type = "blocked"
                 /\ \E r \in Between(a, b) : r.type = "friend"
            /\ \A v \in Users :
                 ~ /\ \E r \in SeqToSet(rels[v]) : r.type = "blocked"
                   /\ \E r \in SeqToSet(rels[v]) : r.type = "friend"

\* b accepted, by itself, the one pending request a -> b that every store
\* mirrored, and every event is processed
AcceptedTheRequest(b) ==
  LET a == Other(b)
  IN /\ op[b].name = "acceptFriendRequest" /\ op[b].target = a
     /\ op[b].sync /\ Cardinality(op[b].pre) = 1
     /\ \A r \in op[b].pre :
          r.from_user = a /\ r.to_user = b /\ r.type = "pending_sent"
     /\ Settled(b)

\* C9: from a single pending_sent edge a -> b, once b's acceptFriendRequest has
\* succeeded and both sessions have processed the events, the status is friend
\* for both and the backend holds exactly two edges, a -> b and b -> a, both
\* of kind friend.
C9_AcceptMakesMutualFriends ==
  \A b \in Users :
    LET a == Other(b)
    IN AcceptedTheRequest(b) =>
         /\ getRelationStatus(a, b).type = "friend"
         /\ getRelationStatus(b, a).type = "friend"
         /\ Cardinality(dbRel) = 2
         /\ \A r \in dbRel : r.type = "friend"
         /\ Cardinality(Edges(a, b)) = 1 /\ Cardinality(Edges(b, a)) = 1

C9_Witness == \E b \in Users : AcceptedTheRequest(b)

\* C10: when an acceptFriendRequest ended in failure after its first write,
\* the same session's next acceptFriendRequest for the same user succeeds and
\* the reciprocal friend edge is stored.
C10_AcceptAgainRepairs ==
  \A b \in Users :
    (/\ op[b].name = "acceptFriendRequest" /\ op[b].pc = "done" /\ ~op[b].fault
     /\ op[b].prev = [name |-> "acceptFriendRequest", target |-> op[b].target,
                      ok |-> FALSE, step |-> 1])
      => /\ op[b].ok
         /\ \E r \in Edges(b, op[b].target) : r.type = "friend"

\* a removed its friend b, by itself, from a mutual friendship that every
\* store mirrored, and every event is processed
RemovedTheFriend(a) ==
  LET b == Other(a)
  IN /\ op[a].name = "removeFriend" /\ op[a].target = b
     /\ op[a].sync /\ Cardinality(op[a].pre) = 2
     /\ \E r \in EdgesIn(op[a].pre, a, b) : r.type = "friend"
     /\ \E r \in EdgesIn(op[a].pre, b, a) : r.type = "friend"
     /\ Settled(a)

\* C11: from a mutual friendship, once a's removeFriend(b) has succeeded and
\* both sessions have processed the events, the backend holds no edge between
\* the two and the status is no_relation for both.
C11_RemoveFriendDeletesBoth ==
  \A a \in Users :
    LET b == Other(a)
    IN RemovedTheFriend(a) =>
         /\ Between(a, b) = {}
         /\ getRelationStatus(a, b).type = "no_relation"
         /\ getRelationStatus(b, a).type = "no_relation"

C11_Witness == \E a \in Users : RemovedTheFriend(a)

\* C12: a removeFriend whose computed status is friend while one directional
\* friend edge only is stored, the outgoing or the incoming one, and that meets
\* no transport failure, deletes that edge and ends without an error.
C12_RemoveFriendToleratesOneEdge ==
  \A u \in Users :
    LET t == op[u].target
        before == EdgesIn(op[u].pre, u, t) \cup EdgesIn(op[u].pre, t, u)
    IN (/\ op[u].name = "removeFriend" /\ op[u].pc = "done"
        /\ op[u].status = "friend" /\ ~op[u].fault
        /\ Solo(op[u]) /\ op[u].sync
        /\ Cardinality(before) = 1 /\ \A r \in before : r.type = "friend")
         => /\ op[u].ok
            /\ Between(u, t) = {}

\* a sent, by itself, a friend request to b with no record between them in any
\* store, and every event is processed
SentTheRequest(a) ==
  /\ op[a].name = "sendFriendRequest" /\ op[a].target = Other(a)
  /\ op[a].sync /\ op[a].pre = {}
  /\ Settled(a)

\* C13: from no relation, once a's sendFriendRequest(b) has succeeded and the
\* events are processed, a's status with b is pending_sent, b's status with a
\* is pending_received, and the backend holds exactly one edge, a -> b of kind
\* pending_sent.
C13_RequestIsOneDirectedEdge ==
  \A a \in Users :
    LET b == Other(a)
        sa == getRelationStatus(a, b)
        sb == getRelationStatus(b, a)
    IN SentTheRequest(a) =>
         /\ sa.type = "pending_sent" /\ sa.isInitiatedByMe
         /\ sb.type = "pending_received" /\ ~sb.isInitiatedByMe
         /\ Cardinality(dbRel) = 1
         /\ \A r \in dbRel :
              r.from_user = a /\ r.to_user = b /\ r.type = "pending_sent"

C13_Witness == \E a \in Users : SentTheRequest(a)

\* positions of the records from f to t in collection rs, and the first of them
Positions(rs, f, t) == {i \in 1..Len(rs) : rs[i].from_user = f /\ rs[i].to_user = t}
First(S) == CHOOSE i \in S : \A j \in S : i <= j

\* C14: getRelationStatus returns the kind of the outgoing record with
\* isInitiatedByMe true when the collection holds one; otherwise the kind of
\* the incoming record, pending_sent reported as pending_received, with
\* isInitiatedByMe false; otherwise no_relation, so with no record between two
\* users it is no_relation in both directions.  It reads the in-memory
\* collection only: the step changes nothing of the backend and counts no call.
C14_StatusFromStoreOnly ==
  /\ [](\A u \in Users :
          op[u].name = "getRelationStatus" =>
            LET rs == rels[u]
                out == Positions(rs, u, op[u].target)
                inc == Positions(rs, op[u].target, u)
            IN IF out # {}
                 THEN /\ op[u].status = rs[First(out)].type /\ op[u].mine
                      /\ op[u].relation = rs[First(out)]
               ELSE IF inc # {}
                 THEN /\ op[u].status =
                           IF rs[First(inc)].type = "pending_sent"
                             THEN "pending_received" ELSE rs[First(inc)].type
                      /\ ~op[u].mine
                      /\ op[u].relation = rs[First(inc)]
               ELSE /\ op[u].status = "no_relation" /\ ~op[u].mine
                    /\ op[u].relation = NoRelation
                    /\ RelationStatus(rs, op[u].target, u).type = "no_relation")
  /\ [][(\E u \in Users : op'[u].name = "getRelationStatus" /\ op'[u] # op[u])
          => UNCHANGED <<dbRel, dbConv, dbMsg, nextId, rels, relQ, convQ, faults>>]_vars

\* the status was computed from an incoming request while the backend holds no
\* record at all
C14_Witness ==
  \E u \in Users :
    /\ op[u].name = "getRelationStatus"
    /\ op[u].status = "pending_received" /\ ~op[u].mine
    /\ op[u].relation.type = "pending_sent" /\ op[u].relation.to_user = u
    /\ dbRel = {}

\* u's frame is not the one the step started from: u's call began or moved on
Moved(u) == [op'[u] EXCEPT !.alone = FALSE] # [op[u] EXCEPT !.alone = FALSE]

\* C15: a sendFriendRequest whose target is the caller, or whose computed
\* status with the target is not no_relation, ends in failure at once: it has
\* made no backend call, and the step leaves the backend's records, the events
\* and every in-memory relation collection as they were.
C15_RequestRefusedLocally ==
  /\ [](\A u \in Users :
          (/\ op[u].name = "sendFriendRequest"
           /\ (op[u].target = u \/ op[u].status # "no_relation"))
            => /\ op[u].pc = "done" /\ ~op[u].ok
               /\ op[u].step = 0 /\ ~op[u].fault)
  /\ [][\A u \in Users :
          (/\ op'[u].name = "sendFriendRequest" /\ Moved(u)
           /\ (op'[u].target = u \/ op'[u].status # "no_relation"))
            => UNCHANGED <<dbRel, nextId, relQ, rels, faults>>]_vars

\* one session was refused for naming itself, the other for a status that is
\* not no_relation
C15_Witness ==
  \E u \in Users :
    /\ op[u].name = "sendFriendRequest" /\ op[u].target = u /\ ~op[u].ok
    /\ op[Other(u)].name = "sendFriendRequest" /\ op[Other(u)].target = u
    /\ op[Other(u)].status # "no_relation" /\ ~op[Other(u)].ok

\* C16: getOrCreateConversation returns a conversation only when the computed
\* status with the other user is friend; with any other status it ends in
\* failure at once, having made no backend call, and the step leaves the
\* backend's conversations and every conversation collection as they were.
C16_ConversationOnlyWithFriend ==
  /\ [](\A u \in Users :
          op[u].name = "getOrCreateConversation" =>
            /\ op[u].status # "friend" =>
                 /\ op[u].pc = "done" /\ ~op[u].ok
                 /\ op[u].step = 0 /\ ~op[u].fault
                 /\ op[u].conv = NoConversation
            /\ (op[u].pc = "done" /\ op[u].ok) =>
                 /\ op[u].status = "friend"
                 /\ op[u].conv \in dbConv
                 /\ op[u].conv.participants = {u, op[u].target})
  /\ [][\A u \in Users :
          (/\ op'[u].name = "getOrCreateConversation" /\ Moved(u)
           /\ op'[u].status # "friend")
            => UNCHANGED <<dbConv, nextId, convQ, convs, faults>>]_vars

\* a call refused on a block by the other user
C16_Witness ==
  \E u \in Users :
    /\ op[u].name = "getOrCreateConversation" /\ op[u].pc = "done" /\ ~op[u].ok
    /\ op[u].status = "blocked" /\ ~op[u].mine

\* the conversations stored for the unordered pair {a, b}
PairConversations(a, b) == {c \in dbConv : c.participants = {a, b}}

\* u's getOrCreateConversation returned, nothing overlapped it, and it came
\* after v's, which returned too with nothing overlapping it, for the same
\* pair, from a backend with at most one conversation for the pair
SecondOfTwo(u, v) ==
  LET first == op[u].prior[v]
  IN /\ op[u].name = "getOrCreateConversation" /\ op[u].pc = "done"
     /\ op[u].ok /\ op[u].alone
     /\ first.name = "getOrCreateConversation" /\ first.ok /\ first.alone
     /\ {v, first.target} = {u, op[u].target}
     /\ first.had <= 1

\* C17: two getOrCreateConversation calls for the same pair of friends, the
\* second starting after the first has returned, from the same participant or
\* from the other, return the same conversation identifier, and the backend
\* holds one conversation for the pair.
C17_SequentialCallsSameConversation ==
  \A u, v \in Users :
    SecondOfTwo(u, v) =>
      /\ op[u].conv.id = op[u].prior[v].conv
      /\ Cardinality(PairConversations(u, op[u].target)) = 1

\* the second call came from the other participant, after a first call that
\* created the conversation
C17_Witness ==
  \E u \in Users :
    /\ SecondOfTwo(u, Other(u))
    /\ op[u].prior[Other(u)].had = 0
    /\ op[u].step = 0

\* C18: the backend holds at most one conversation per unordered pair of
\* participants, however the getOrCreateConversation calls of the two sessions
\* interleave.
C18_OneConversationPerPair ==
  \A a, b \in Users : Cardinality(PairConversations(a, b)) <= 1

\* C19: the backend holds at most one relation record per ordered (from, to)
\* pair, however the sendFriendRequest, acceptFriendRequest and blockUser calls
\* of the two users interleave.
C19_OneRecordPerOrderedPair ==
  \A a, b \in Users : Cardinality(Edges(a, b)) <= 1

\* the handler h of a conversation event ends in this step: it is gone and has
\* not moved on to its friendship query
HandlerEnds(u, h) ==
  /\ h \in convH[u] /\ h \notin convH'[u]
  /\ \/ h.stage = "friendship"
     \/ \A g \in convH'[u] : ~(g.stage = "friendship" /\ g.record.id = h.record.id)

\* a create handler of the relation or of the message collection that ends on
\* an identifier already present leaves its collection as it was
ReplayKeepsRelationsAndMessages(u) ==
  /\ \A h \in relH[u] \ relH'[u] :
       (h.action = "create" /\ HasId(rels[u], h.record.id)) => rels'[u] = rels[u]
  /\ \A m \in msgH[u] \ msgH'[u] :
       HasId(msgs[u], m.id) => msgs'[u] = msgs[u]

\* C20 (as stated): handling a create event whose identifier is already present
\* leaves the collection as it was, for the relation collection, the
\* conversation collection and the message collection.
C20_ReplayedCreateChangesNothing ==
  [][\A u \in Users :
       /\ ReplayKeepsRelationsAndMessages(u)
       /\ \A h \in convH[u] :
            (/\ HandlerEnds(u, h) /\ h.action = "create"
             /\ HasId(convs[u], h.record.id))
              => convs'[u] = convs[u]]_vars

\* C20 (amended): handling a create event whose identifier is already present
\* adds no entry to any of the three collections.  The relation and the message
\* collection are left as they were.  The conversation collection keeps its
\* other entries as they were, and the entry of the event is evaluated again:
\* when the handler cannot fetch the conversation the entry stays as it was;
\* when its friendship query finds a friend edge the entry is replaced in place
\* by the record the handler fetched; otherwise (the computed status is blocked,
\* no friend edge is stored, or the friendship query fails) the entry is removed.
C20_ReplayAddsNoEntry ==
  [][\A u \in Users :
       /\ ReplayKeepsRelationsAndMessages(u)
       /\ \A h \in convH[u] :
            (/\ HandlerEnds(u, h) /\ h.action = "create"
             /\ HasId(convs[u], h.record.id))
              => /\ RemoveById(convs'[u], h.record.id) = RemoveById(convs[u], h.record.id)
                 /\ Len(convs'[u]) <= Len(convs[u])
                 /\ IF h.stage = "friendship"
                      THEN IF h.ok
                             THEN convs'[u] = ReplaceById(convs[u], h.record.id, h.record)
                             ELSE ~HasId(convs'[u], h.record.id)
                    ELSE IF faults' # faults \/ \A c \in dbConv : c.id # h.record.id
                      THEN convs'[u] = convs[u]
                    ELSE /\ ~HasId(convs'[u], h.record.id)
                         /\ getRelationStatus(u, getOtherParticipant(u, h.record)).type
                              = "blocked"]_vars

\* u created a conversation and placed it in its collection, then handled the
\* create event of that conversation, and the collection no longer holds it
C20_Witness ==
  \E u \in Users :
    /\ op[u].name = "getOrCreateConversation" /\ op[u].pc = "done" /\ op[u].ok
    /\ op[u].step = 1 /\ op[u].conv \in dbConv
    /\ convQ[u] = <<>> /\ convH[u] = {}
    /\ ~HasId(convs[u], op[u].conv.id)

Mutations == {"sendFriendRequest", "acceptFriendRequest", "rejectFriendRequest",
              "cancelFriendRequest", "removeFriend", "blockUser", "unblockUser"}
\* u's call ran by itself from a quiet system and u has handled none of the
\* events of its own writes: its collection changed by the call's code only
OwnCodeOnly(u) ==
  /\ Solo(op[u])
  /\ Len(relQ[u]) = op[u].step /\ relH[u] = {}

\* C21: when a relation mutation has ended in failure, a failure of a later
\* write after an earlier one succeeded included, the caller's in-memory
\* relation collection is the one it held before the call.
C21_FailedMutationKeepsCollection ==
  \A u \in Users :
    (/\ op[u].name \in Mutations /\ op[u].pc = "done" /\ ~op[u].ok
     /\ OwnCodeOnly(u))
      => rels[u] = op[u].held

\* u's fetchRelations, called by itself or at the end of acceptFriendRequest,
\* resumes in this step from its getList
FetchResumes(u) ==
  /\ op[u].name \in {"fetchRelations", "acceptFriendRequest"}
  /\ op[u].pc = "fetch" /\ op'[u].pc = "done"

\* C22: when the getList of fetchRelations fails, the error state is set to a
\* message that is not empty and the in-memory relation collection is left as
\* it was, with no partial replacement; when it succeeds the collection is
\* replaced by the records fetched, which are the backend's records touching
\* the user.
C22_FetchReplacesOrKeeps ==
  /\ [][\A u \in Users :
          FetchResumes(u) =>
            IF op[u].ok
              THEN rels'[u] = op[u].items /\ errorSignal'[u] = ""
              ELSE rels'[u] = rels[u] /\ errorSignal'[u] # ""]_vars
  /\ [](\A u \in Users :
          (/\ op[u].name = "fetchRelations" /\ op[u].pc = "done"
           /\ OwnCodeOnly(u))
            => IF op[u].fault
                 THEN rels[u] = op[u].held /\ errorSignal[u] # ""
                 ELSE rels[u] = SortById(Touching(u)) /\ errorSignal[u] = "")

\* a fetchRelations failed on a collection that held a record
C22_Witness ==
  \E u \in Users :
    /\ op[u].name = "fetchRelations" /\ op[u].pc = "done" /\ op[u].fault
    /\ OwnCodeOnly(u)
    /\ op[u].held # <<>> /\ rels[u] = op[u].held
    /\ errorSignal[u] = "transport"

\* u's sendMessage was given a text that is empty once trimmed, or u is not
\* signed in
InvalidSend(o, u) ==
  o.name = "sendMessage" /\ (o.blank \/ currentUser[u] = NoUser)

\* C23: a sendMessage whose text is empty once trimmed, and a sendMessage of a
\* session that is not signed in, end in failure at once: no conversation has
\* been looked up, no message created and no timestamp updated, and the step
\* leaves the backend and the events as they were.
C23_InvalidSendMakesNoCall ==
  /\ [](\A u \in Users :
          InvalidSend(op[u], u) =>
            /\ op[u].pc = "done" /\ ~op[u].ok
            /\ op[u].step = 0 /\ ~op[u].fault
            /\ op[u].conv = NoConversation /\ op[u].msg = 0)
  /\ [][\A u \in Users :
          (InvalidSend(op'[u], u) /\ Moved(u))
            => UNCHANGED <<dbMsg, dbConv, nextId, clock, convQ, msgQ, faults>>]_vars

\* one session, signed in, was refused a text of blanks; the other, not signed
\* in, was refused a text that is not blank
C23_Witness ==
  \E u \in Users :
    /\ currentUser[u] = u /\ op[u].name = "sendMessage" /\ op[u].blank
    /\ op[u].pc = "done" /\ ~op[u].ok
    /\ currentUser[Other(u)] = NoUser
    /\ op[Other(u)].name = "sendMessage" /\ ~op[Other(u)].blank
    /\ op[Other(u)].pc = "done" /\ ~op[Other(u)].ok

\* the message u's send has created is stored
MessageStored(u) ==
  \E m \in dbMsg :
    m.id = op[u].msg /\ m.user = u /\ m.conversation = op[u].conv.id

\* C24: sendMessage and sendFileMessage create the message record before they
\* update the conversation's timestamp: the step that creates the message
\* leaves the conversations as they were, and the timestamp is updated only by
\* a send whose message is stored.  No step removes a message, so when the
\* update fails the call ends in failure with its message still stored.
C24_MessageBeforeTimestamp ==
  /\ [][/\ \A u \in Users :
            (op[u].name \in Sends /\ op[u].pc = "conversation" /\ op'[u].pc = "message")
              => dbConv' = dbConv /\ clock' = clock
        /\ (dbConv' # dbConv) =>
             \E u \in Users :
               /\ op[u].name \in Sends /\ op[u].pc = "message" /\ op'[u].pc = "bump"
               /\ op[u].ok /\ MessageStored(u)
        /\ dbMsg \subseteq dbMsg']_vars
  /\ [](\A u \in Users :
          (op[u].name \in Sends /\ op[u].pc \in {"bump", "done"} /\ op[u].msg # 0)
            => MessageStored(u))

\* the update of the timestamp failed: the call ended in failure, the message
\* is stored and the conversation has its old timestamp
C24_Witness ==
  \E u \in Users :
    /\ op[u].name \in Sends /\ op[u].pc = "done" /\ ~op[u].ok /\ op[u].fault
    /\ op[u].msg # 0 /\ MessageStored(u)
    /\ \A c \in dbConv : c.updated = 0

\* the computed status rejectFriendRequest and cancelFriendRequest ask for
RequiredStatus(name) ==
  IF name = "rejectFriendRequest" THEN "pending_received" ELSE "pending_sent"
\* u's call is a rejectFriendRequest or a cancelFriendRequest
RejectOrCancel(o) == o.name \in {"rejectFriendRequest", "cancelFriendRequest"}
\* no record between u and t is stored, in the backend or in u's collection
NothingBetween(u, t) ==
  /\ Between(u, t) = {}
  /\ \A r \in SeqToSet(rels[u]) : {r.from_user, r.to_user} # {u, t}

\* C25: rejectFriendRequest goes on only when the computed status is
\* pending_received, cancelFriendRequest only when it is pending_sent;
\* otherwise the call ends in failure at once with no backend call, and the
\* step changes nothing.  When the call succeeds the record of the request is
\* gone from the backend and the step that ends the call leaves it out of the
\* caller's collection; when the call ran by itself on stores that mirrored the
\* backend, that record was the pending one, it stays out of the collection,
\* nothing has been written in its place, and with no other record between the
\* two before the call none is left for the pair.
C25_RejectCancelDeleteTheRequest ==
  /\ [](\A u \in Users :
          RejectOrCancel(op[u]) =>
            /\ op[u].status # RequiredStatus(op[u].name) =>
                 /\ op[u].pc = "done" /\ ~op[u].ok
                 /\ op[u].step = 0 /\ ~op[u].fault
            /\ (op[u].pc = "done" /\ op[u].ok) =>
                 /\ op[u].status = RequiredStatus(op[u].name)
                 /\ op[u].relation.type = "pending_sent"
                 /\ \A r \in dbRel : r.id # op[u].relation.id
            /\ (op[u].pc = "done" /\ op[u].ok /\ Solo(op[u]) /\ op[u].sync) =>
                 LET t == op[u].target
                     before == EdgesIn(op[u].pre, u, t) \cup EdgesIn(op[u].pre, t, u)
                 IN /\ op[u].relation \in before
                    /\ ~HasId(rels[u], op[u].relation.id)
                    /\ Between(u, t) = before \ {op[u].relation}
                    /\ before = {op[u].relation} => NothingBetween(u, t))
  /\ [][\A u \in Users :
          /\ (/\ RejectOrCancel(op'[u]) /\ Moved(u)
              /\ op'[u].status # RequiredStatus(op'[u].name))
               => UNCHANGED <<dbRel, nextId, relQ, rels, faults, errorSignal>>
          /\ (/\ RejectOrCancel(op'[u]) /\ Moved(u)
              /\ op'[u].pc = "done" /\ op'[u].ok)
               => ~HasId(rels'[u], op'[u].relation.id)]_vars

\* one session has rejected the request the other had sent, and the other's
\* cancelFriendRequest was then refused
C25_Witness ==
  \E u \in Users :
    /\ op[u].name = "rejectFriendRequest" /\ op[u].pc = "done" /\ op[u].ok
    /\ op[u].sync /\ NothingBetween(u, op[u].target)
    /\ op[Other(u)].name = "cancelFriendRequest" /\ op[Other(u)].target = u
    /\ op[Other(u)].pc = "done" /\ ~op[Other(u)].ok
    /\ op[Other(u)].status = "no_relation"

\* u's call is an unblockUser
Unblocking(o) == o.name = "unblockUser"
\* the computed status unblockUser asks for: blocked, by the local user
BlockedByMe(o) == o.status = "blocked" /\ o.mine

\* C26: unblockUser goes on only when the computed status is blocked and the
\* block was initiated by the local user; as the blocked party, or in any other
\* status, the call ends in failure at once with no backend call and the step
\* changes nothing, so the blocking edge stays.  When the call succeeds the
\* record deleted is the blocking edge from the local user to the target, it is
\* gone from the backend and the step that ends the call leaves it out of the
\* caller's collection; when the call ran by itself on stores that mirrored the
\* backend exactly that edge has gone and every other record between the two
\* is still there.
C26_UnblockOnlyMyOwnBlock ==
  /\ [](\A u \in Users :
          Unblocking(op[u]) =>
            /\ ~BlockedByMe(op[u]) =>
                 /\ op[u].pc = "done" /\ ~op[u].ok
                 /\ op[u].step = 0 /\ ~op[u].fault
            /\ (op[u].pc = "done" /\ op[u].ok) =>
                 /\ BlockedByMe(op[u])
                 /\ op[u].relation.type = "blocked"
                 /\ op[u].relation.from_user = u
                 /\ op[u].relation.to_user = op[u].target
                 /\ \A r \in dbRel : r.id # op[u].relation.id
            /\ (op[u].pc = "done" /\ op[u].ok /\ Solo(op[u]) /\ op[u].sync) =>
                 LET t == op[u].target
                 IN /\ op[u].relation \in EdgesIn(op[u].pre, u, t)
                    /\ ~HasId(rels[u], op[u].relation.id)
                    /\ Edges(u, t) = EdgesIn(op[u].pre, u, t) \ {op[u].relation}
                    /\ Edges(t, u) = EdgesIn(op[u].pre, t, u))
  /\ [][\A u \in Users :
          /\ (Unblocking(op'[u]) /\ Moved(u) /\ ~BlockedByMe(op'[u]))
               => UNCHANGED <<dbRel, nextId, relQ, rels, faults, errorSignal>>
          /\ (/\ Unblocking(op'[u]) /\ Moved(u)
              /\ op'[u].pc = "done" /\ op'[u].ok)
               => ~HasId(rels'[u], op'[u].relation.id)]_vars

\* one user has blocked the other, and the blocked party's unblockUser was
\* refused with the blocking edge still stored
C26_Witness ==
  \E u \in Users :
    /\ Unblocking(op[u]) /\ op[u].pc = "done" /\ ~op[u].ok
    /\ op[u].status = "blocked" /\ ~op[u].mine /\ op[u].target = Other(u)
    /\ op[u].step = 0 /\ errorSignal[u] = ""
    /\ op[Other(u)].name = "blockUser" /\ op[Other(u)].target = u
    /\ op[Other(u)].pc = "done" /\ op[Other(u)].ok
    /\ \E r \in Edges(Other(u), u) : r.type = "blocked" /\ HasId(rels[u], r.id)

\* the kinds a relation record may be stored under
StoredTypes == {"friend", "blocked", "pending_sent"}

\* C27: every relation record of the backend and of every in-memory collection
\* has kind friend, blocked or pending_sent, and so has every record a realtime
\* event carries; pending_received is met in computed statuses only.
C27_PendingReceivedNeverStored ==
  /\ \A r \in dbRel : r.type \in StoredTypes
  /\ \A u \in Users :
       /\ \A i \in 1..Len(rels[u]) : rels[u][i].type \in StoredTypes
       /\ \A i \in 1..Len(relQ[u]) : relQ[u][i].record.type \in StoredTypes

\* a request sent in this behaviour is stored as pending_sent in the backend
\* and in its receiver's collection, where the computed status is
\* pending_received
C27_Witness ==
  \E u \in Users :
    /\ op[Other(u)].name = "sendFriendRequest" /\ op[Other(u)].pc = "done"
    /\ op[Other(u)].ok /\ op[Other(u)].target = u
    /\ getRelationStatus(u, Other(u)).type = "pending_received"
    /\ getRelationStatus(u, Other(u)).relation \in dbRel
    /\ getRelationStatus(u, Other(u)).relation.type = "pending_sent"
    /\ op[u].name = "rejectFriendRequest" /\ op[u].status = "pending_received"

\* the messages of conversation id in u's collection
Shown(s, id) == {m \in SeqToSet(s) : m.conversation = id}

\* C28: when a loadConversation ends, its conversation being the current one,
\* whether its fetch succeeded or failed, the message collection holds no
\* message of the conversation that was current before it; and when the current
\* conversation is cleared the collection holds no message of it any more.
C28_SwitchDiscardsPreviousWindow ==
  [][\A u \in Users :
       /\ \A l \in loads[u] \ loads'[u] :
            l.conv.id = active[u] => Shown(msgs'[u], l.left) = {}
       /\ (active[u] # 0 /\ active'[u] = 0) => Shown(msgs'[u], active[u]) = {}]_vars

\* C29: a message event of a conversation other than the current one never
\* changes the message collection: neither the callback it is delivered to nor
\* the handler that ends on it, however the switches interleave with the
\* resolution of the subscribe calls.
C29_OtherConversationEventsIgnored ==
  [][\A u \in Users :
       /\ (msgQ[u] # <<>> /\ msgQ'[u] = Tail(msgQ[u])
            /\ Head(msgQ[u]).record.conversation # active[u])
             => msgs'[u] = msgs[u] /\ msgH'[u] = msgH[u]
       /\ \A record \in msgH[u] \ msgH'[u] :
            record.conversation # active[u] => msgs'[u] = msgs[u]]_vars

\* C30: the response of a fetchMessages call that arrives when its conversation
\* is no longer the current one is discarded: the message collection stays as
\* it was, so that with no fetch in flight any more it holds no message the
\* abandoned fetch returned.
C30_LateFetchDiscarded ==
  [][\A u \in Users :
       \A l \in loads[u] \ loads'[u] :
         l.conv.id # active[u] => msgs'[u] = msgs[u]]_vars

\* the entries of a collection that carry identifier id
Entries(s, id) == {i \in 1..Len(s) : s[i].id = id}
\* u's callback is delivered, in this step, the event at the head of its queue
Delivered(u) == relQ[u] # <<>> /\ relQ'[u] = Tail(relQ[u])
\* the create handlers of u that await their expansion fetch
Awaiting(u) == {h \in relH[u] : h.action = "create"}

\* C31: the in-flight marker holds the identifiers of the create handlers that
\* await their expansion fetch, one handler per identifier.  A create event
\* delivered while the handler of an earlier create event with the same
\* identifier is awaiting starts no handler and changes neither the collection
\* nor the marker.  When that handler finishes, its fetch having succeeded or
\* failed, the marker of the identifier is cleared and the collection holds one
\* entry for the identifier where it held none, and as many as before otherwise.
C31_DuplicateCreateSuppressed ==
  /\ [](\A u \in Users :
          /\ processingIds[u] = {h.record.id : h \in Awaiting(u)}
          /\ \A g, h \in Awaiting(u) : g.record.id = h.record.id => g = h)
  /\ [][\A u \in Users :
          /\ (/\ Delivered(u) /\ Head(relQ[u]).action = "create"
              /\ Head(relQ[u]).record.id \in processingIds[u])
               => UNCHANGED <<rels, relH, processingIds>>
          /\ \A h \in Awaiting(u) \ relH'[u] :
               /\ h.record.id \notin processingIds'[u]
               /\ Cardinality(Entries(rels'[u], h.record.id)) =
                    IF Entries(rels[u], h.record.id) = {} THEN 1
                    ELSE Cardinality(Entries(rels[u], h.record.id))
               /\ \A id \in {r.id : r \in SeqToSet(rels[u])} \ {h.record.id} :
                    Entries(rels'[u], id) = Entries(rels[u], id)]_vars

\* a create event is at the head of the queue a second time while the handler
\* of its first delivery awaits its fetch, the collection not holding the record
C31_Witness ==
  \E u \in Users :
    /\ relQ[u] # <<>> /\ Head(relQ[u]).action = "create"
    /\ Head(relQ[u]) \in relH[u]
    /\ Head(relQ[u]).record.id \in processingIds[u]
    /\ ~HasId(rels[u], Head(relQ[u]).record.id)

\* the delete of record id has reached u's session: the backend no longer holds
\* the record and no delete event of it is still to be delivered
DeleteProcessed(u, id) ==
  /\ \A r \in dbRel : r.id # id
  /\ \A i \in 1..Len(relQ[u]) :
       ~(relQ[u][i].action = "delete" /\ relQ[u][i].record.id = id)

\* C32: when the create handler of a relation finishes after the delete event
\* of the same identifier was processed, which then happened while the handler
\* was suspended on its expansion fetch, the identifier is absent from the
\* collection.
C32_DeleteDuringCreateWins ==
  [][\A u \in Users :
       \A h \in Awaiting(u) \ relH'[u] :
         DeleteProcessed(u, h.record.id) => ~HasId(rels'[u], h.record.id)]_vars

\* every identifier has at most one entry in the collection
OneEntryEach(s) == \A i, j \in 1..Len(s) : s[i].id = s[j].id => i = j

\* C33: the in-memory relation collection and the in-memory conversation
\* collection hold at most one entry per record identifier, whether the
\* response to the local user's own create is handled before or after the
\* create event of the same record.
C33_OneEntryPerIdentifier ==
  \A u \in Users : OneEntryEach(rels[u]) /\ OneEntryEach(convs[u])

\* C34: the conversation collection is ordered most recently updated first: no
\* conversation precedes one with a later update timestamp, after
\* fetchConversations, getOrCreateConversation and every create or update
\* event.
C34_ConversationsNewestFirst ==
  \A u \in Users :
    \A i, j \in 1..Len(convs[u]) :
      i < j => convs[u][i].updated >= convs[u][j].updated

\* C35: the message collection is ordered by creation ascending: no message
\* precedes one created earlier, after fetchMessages and after create events
\* whose handlers resume from the author lookup in any order.
C35_MessagesOldestFirst ==
  \A u \in Users :
    \A i, j \in 1..Len(msgs[u]) : i < j => msgs[u][i].id < msgs[u][j].id

\* C36: an authenticated session keeps its relation subscription whatever page
\* is left, and every record another session writes that touches the local
\* user eventually shows in the in-memory collection (or is gone again)
Recorded(u, id) == \E r \in Touching(u) : r.id = id

C36_RelationsStaySubscribed ==
  /\ [](\A u \in Users : currentUser[u] # NoUser => relUnsubscribe[u])
  /\ \A u \in Users : \A id \in 1..(3 + MaxLifeOps) :
       (Recorded(u, id) /\ ~HasId(rels[u], id))
         ~> (HasId(rels[u], id) \/ ~Recorded(u, id))

\* C37: when blockUser(target) has succeeded, having run by itself on a store
\* that mirrored the backend, the in-memory collection holds exactly the
\* backend's records between the local user and the target; the target's own
\* blocked record, if there was one, is among them
InMemoryBetween(u, t) ==
  {r \in SeqToSet(rels[u]) : {r.from_user, r.to_user} = {u, t}}

C37_BlockKeepsIncomingRecord ==
  \A a \in Users :
    LET b == Other(a)
    IN (/\ op[a].name = "blockUser" /\ op[a].target = b
        /\ op[a].pc = "done" /\ op[a].ok /\ Solo(op[a]) /\ op[a].sync)
         => InMemoryBetween(a, b) = Between(a, b)

\* C38: a sendMessage or sendFileMessage that ends in failure has created no
\* message record
C38_RejectedSendCreatedNothing ==
  \A u \in Users :
    (op[u].name \in Sends /\ op[u].pc = "done" /\ ~op[u].ok)
      => op[u].msg = 0 /\ ~MessageStored(u)

\* C39: once a fetchRelations has returned, every event is processed and no
\* call is pending, the in-memory collection of the fetching session holds
\* exactly the backend's records that touch its user, whatever events were
\* delivered while the fetch was in flight
C39_FetchLosesNoEvent ==
  \A u \in Users :
    (/\ op[u].name = "fetchRelations" /\ ~op[u].fault
     /\ \A v \in Users : Idle(v)
     /\ QuietRel)
      => InSync(u)

\* a message of u's current conversation is stored and not shown to u
Missing(u, id) ==
  \E m \in dbMsg : m.id = id /\ m.conversation = active[u] /\ ~HasId(msgs[u], id)

\* C40: every message stored for the conversation a session has loaded, and
\* keeps current, eventually shows in its message collection (unless a
\* transport failure occurred), whenever its create event was emitted
C40_MessagesEventuallyShown ==
  \A u \in Users : \A id \in 8..(9 + MaxStreamOps) :
    Missing(u, id) ~> (HasId(msgs[u], id) \/ faults > 0)

====
